---- MODULE Spec2Model ----
(***************************************************************************)
(* leveldb_blockchain: the block store facade of                           *)
(* src/src/blockchain/leveldb/leveldb_blockchain.cpp.                      *)
(*                                                                         *)
(* The facade's own code (start, stop, do_store, do_import, the do_fetch_* *)
(* bodies, subscribe_reorganize) is translated from that file.  Its        *)
(* collaborators leveldb_common, leveldb_chain_keeper, orphans_pool,       *)
(* leveldb_organizer, the reorganize subscriber and async_strand are only  *)
(* included and called there (lines 17-21, 121-131); their behaviour is    *)
(* taken from the design description (sections 4.1-4.5 and 5).  The        *)
(* construction of orphans_, chain_ and organize_ is the one of lines      *)
(* 125-131.                                                                *)
(***************************************************************************)
EXTENDS Integers, Sequences, FiniteSets, TLC

VARIABLES
    lifecycle,        \* "new", "running", "failed", "stopped", "crashed"
    flock,            \* flock_: whether this instance holds the lock on db-lock
    opened,           \* how many of the five db_*_l1 handles hold an open table
    db_blocks,        \* db_blocks_l1:      depth -> stored block record
    db_blocks_hash,   \* db_blocks_hash_l1: block hash -> depth
    db_txs,           \* db_txs_l1:         tx hash -> [depth, index]
    db_spends,        \* db_spends_l1:      output point -> input point
    db_address,       \* db_address_l1:     address -> sequence of output points
    orphans,          \* orphans_: the pending blocks, keyed by their own hash
    subscribers,      \* reorganize_subscriber_: handlers registered and not yet fired
    published,        \* every event relayed so far, in order
    flush_counter,    \* static size_t flush_counter of do_store
    results,          \* handler invocations of the most recent operation, in order
    log,              \* organizer trace of the most recent do_store
    imports,          \* number of do_import bodies run so far
    submitted,        \* every handler given to queue(), in submission order
    strand,           \* async_strand: the queued handlers, by position in submitted
    running,          \* the handlers that have begun and not yet returned
    began,            \* the order in which handlers began
    ended,            \* the order in which handlers returned
    stop_pc,          \* the thread inside stop(): "none", "relayed" after the
                      \* relay call, "returned" after the resets
    context           \* where the handlers of results were called: "none" before
                      \* any call, "caller" inside a facade call, "strand" from
                      \* a handler the strand ran

tables == <<db_blocks, db_blocks_hash, db_txs, db_spends, db_address>>
chain_vars == <<lifecycle, flock, opened, db_blocks, db_blocks_hash, db_txs, db_spends, db_address,
                orphans, subscribers, published, flush_counter, results, log, imports>>
strand_vars == <<submitted, strand, running, began, ended, stop_pc, context>>
vars == <<chain_vars, strand_vars>>

\* ------------------------------------------------------------------ bounds
MaxStores == 6
MaxImports == 1
MaxDepth == 2
MaxSubmit == 4
MaxPoolBlocks == 22

\* ------------------------------------------------------- program constants
\* 32-bit values are written in their two's complement reading: the model
\* checker's integers are 32 bits wide, so std::numeric_limits<uint32_t>::max(),
\* the bit pattern 0xFFFFFFFF, is -1, the same pattern as the int -1 of do_store.
NotFoundDepth == -1
NoIndex == -1
FlushInterval == 2000
OrphanCapacity == 20
NullHash == 0

\* ------------------------------------------------------------ the inputs
\* Transactions: inputs are the output points spent, outputs the addresses paid.
TxHashes == {11, 12, 13, 14, 15, 16, 17}
Addresses == {"X", "Y"}

TxInputs(t) ==
    CASE t = 11 -> <<>>
      [] t = 12 -> << <<11, 0>> >>
      [] t = 13 -> << <<12, 0>> >>
      [] t = 14 -> << <<11, 0>> >>
      [] t = 15 -> << <<14, 0>> >>
      [] t = 16 -> << <<11, 1>> >>
      [] t = 17 -> << <<15, 0>> >>

TxOutputs(t) ==
    CASE t = 11 -> <<"X", "Y">>
      [] t = 12 -> <<"Y">>
      [] t = 13 -> <<"X">>
      [] t = 14 -> <<"X">>
      [] t = 15 -> <<"Y">>
      [] t = 16 -> <<"X">>
      [] t = 17 -> <<"X">>

\* Blocks: a genesis block 1, the branch 2-3 and the competing branch 4-5-6.
\* Transaction 16 is in a block of each branch.
BlockUniverse ==
    { [hash |-> 1, prev |-> NullHash, txs |-> <<11>>],
      [hash |-> 2, prev |-> 1, txs |-> <<12>>],
      [hash |-> 3, prev |-> 2, txs |-> <<13, 16>>],
      [hash |-> 4, prev |-> 1, txs |-> <<14>>],
      [hash |-> 5, prev |-> 4, txs |-> <<15, 16>>],
      [hash |-> 6, prev |-> 5, txs |-> <<17>>] }

\* The blocks submitted where import runs beside store: the genesis block, the
\* branch 2 and the competing branch 4-5; the block a bulk load hands to import.
StoreUniverse == {b \in BlockUniverse : b.hash \in {1, 2, 4, 5}}
ImportUniverse == {b \in BlockUniverse : b.hash \in {4}}

\* The keys the fetch operations are called with.
FetchHashes == {2, 5}
FetchTxs == {12, 16}
FetchOutPoints == {<<11, 0>>, <<11, 1>>}

BlockHashes == {b.hash : b \in BlockUniverse}
BlockOf(h) == CHOOSE b \in BlockUniverse : b.hash = h
hash_block_header(b) == b.hash

OutPoints == UNION {{<<t, k - 1>> : k \in 1..Len(TxOutputs(t))} : t \in TxHashes}

\* ------------------------------------------------------------- utilities
Max(S) == CHOOSE x \in S : \A y \in S : y <= x
Min(S) == CHOOSE x \in S : \A y \in S : x <= y
Put(f, k, v) == [x \in (DOMAIN f) \cup {k} |-> IF x = k THEN v ELSE f[x]]
Del(f, k) == [x \in (DOMAIN f) \ {k} |-> f[x]]
Empty == [x \in {} |-> 0]
SelectNot(s, v) == SelectSeq(s, LAMBDA e : e # v)
Range(s) == {s[i] : i \in 1..Len(s)}

\* ---------------------------------------------------------- leveldb_common
\* The chain state handed through the collaborators is the record
\* [blocks, blocks_hash, txs, spends, address, orphans, subs, published, log].

\* common_->fetch_block_depth(hash): the depth, or the 32-bit not-found value.
common_fetch_block_depth(blocks_hash, h) ==
    IF h \in DOMAIN blocks_hash THEN blocks_hash[h] ELSE NotFoundDepth

\* common_->find_last_block_depth(): the greatest depth holding a block.
\* Depths are 32-bit unsigned values, held as their bit patterns: a pattern
\* below zero stands for a depth of 2^31 or more, NotFoundDepth for 2^32 - 1.
UnsignedMax(S) == IF \E x \in S : x < 0 THEN Max({x \in S : x < 0}) ELSE Max(S)

find_last_block_depth(blocks) ==
    IF DOMAIN blocks = {} THEN NotFoundDepth ELSE UnsignedMax(DOMAIN blocks)

\* common_->fetch_proto_block(index): the record, or an uninitialized one.
fetch_proto_block_by_depth(blocks, d) ==
    IF d \in DOMAIN blocks THEN <<TRUE, blocks[d]>> ELSE <<FALSE, NullHash>>

fetch_proto_block_by_hash(blocks, blocks_hash, h) ==
    IF h \in DOMAIN blocks_hash
    THEN fetch_proto_block_by_depth(blocks, blocks_hash[h])
    ELSE <<FALSE, NullHash>>

\* common_->fetch_proto_transaction(hash)
fetch_proto_transaction(txs, t) ==
    IF t \in DOMAIN txs THEN <<TRUE, txs[t]>> ELSE <<FALSE, NullHash>>

\* common_->fetch_spend(outpoint, input_spend)
common_fetch_spend(spends, op) ==
    IF op \in DOMAIN spends THEN <<TRUE, spends[op]>> ELSE <<FALSE, <<NullHash, 0>>>>

RECURSIVE save_inputs(_, _, _)
save_inputs(spends, t, j) ==
    IF j > Len(TxInputs(t)) THEN spends
    ELSE save_inputs(Put(spends, TxInputs(t)[j], <<t, j - 1>>), t, j + 1)

RECURSIVE save_outputs(_, _, _)
save_outputs(address, t, k) ==
    IF k > Len(TxOutputs(t)) THEN address
    ELSE LET a == TxOutputs(t)[k]
             old == IF a \in DOMAIN address THEN address[a] ELSE <<>>
         IN save_outputs(Put(address, a, Append(old, <<t, k - 1>>)), t, k + 1)

RECURSIVE save_transactions(_, _, _, _)
save_transactions(st, depth, b, i) ==
    IF i > Len(b.txs) THEN st
    ELSE LET t == b.txs[i]
         IN save_transactions(
                [st EXCEPT !.txs = Put(@, t, [depth |-> depth, index |-> i - 1]),
                           !.spends = save_inputs(@, t, 1),
                           !.address = save_outputs(@, t, 1)],
                depth, b, i + 1)

\* common_->save_block(depth, block): the block record keyed by depth, the
\* reverse mapping hash -> depth, and the transaction, spend and address entries.
save_block(st, depth, b) ==
    save_transactions(
        [st EXCEPT !.blocks = Put(@, depth, b),
                   !.blocks_hash = Put(@, b.hash, depth)],
        depth, b, 1)

\* ---------------------------------------------------- leveldb_chain_keeper
\* chain_->find_index(hash): the depth as an int, -1 when the hash is unknown.
find_index(blocks_hash, h) ==
    IF h \in DOMAIN blocks_hash THEN blocks_hash[h] ELSE NoIndex

RECURSIVE remove_inputs(_, _, _)
remove_inputs(spends, t, j) ==
    IF j > Len(TxInputs(t)) THEN spends
    ELSE remove_inputs(Del(spends, TxInputs(t)[j]), t, j + 1)

RECURSIVE remove_outputs(_, _, _)
remove_outputs(address, t, k) ==
    IF k > Len(TxOutputs(t)) THEN address
    ELSE LET a == TxOutputs(t)[k]
             old == IF a \in DOMAIN address THEN address[a] ELSE <<>>
             new == SelectNot(old, <<t, k - 1>>)
         IN remove_outputs(IF new = <<>> THEN Del(address, a) ELSE Put(address, a, new),
                           t, k + 1)

RECURSIVE remove_transactions(_, _, _)
remove_transactions(st, b, i) ==
    IF i > Len(b.txs) THEN st
    ELSE LET t == b.txs[i]
         IN remove_transactions(
                [st EXCEPT !.txs = Del(@, t),
                           !.spends = remove_inputs(@, t, 1),
                           !.address = remove_outputs(@, t, 1)],
                b, i + 1)

\* Unconfirm the block at depth d: reverse its hash -> depth, transaction, spend
\* and address entries and take it off the chain.
unconfirm(st, d) ==
    LET b == st.blocks[d]
        st1 == remove_transactions(st, b, 1)
    IN [st1 EXCEPT !.blocks = Del(@, d),
                   !.blocks_hash = Del(@, b.hash),
                   !.log = Append(@, [kind |-> "unconfirm", hash |-> b.hash, depth |-> d])]

\* Confirm the pending block b at depth d: the index-writing step, and the block
\* leaves the orphan pool.
confirm(st, b, d) ==
    LET st1 == save_block(st, d, b)
    IN [st1 EXCEPT !.orphans = @ \ {b},
                   !.log = Append(@, [kind |-> "confirm", hash |-> b.hash, depth |-> d])]

\* ------------------------------------------------------------- orphans_pool
\* orphans_->add(block): false when a block of that hash is pending; otherwise
\* the block is inserted, an entry giving way when the pool is at its capacity.
\* add that does not look for a pending block of the same hash.
orphans_add_ok_unchecked(pool, b) == TRUE

orphans_add_ok(pool, b) == \A o \in pool : o.hash # b.hash

orphans_add(pool, b) ==
    IF ~orphans_add_ok(pool, b) THEN pool
    ELSE IF Cardinality(pool) >= OrphanCapacity
         THEN (pool \ {CHOOSE o \in pool : TRUE}) \cup {b}
    ELSE pool \cup {b}

\* ---------------------------------------------------- reorganize subscriber
\* relay that keeps the registrations.
relay_rearmed(st, ev) ==
    [st EXCEPT !.published = Append(@, [ev EXCEPT !.to = st.subs])]

\* relay(ec, fork, added, removed): one event, handed to every handler that is
\* registered; a handler is one-shot, so the registrations are used up.
relay(st, ev) ==
    [st EXCEPT !.published = Append(@, [ev EXCEPT !.to = st.subs]),
               !.subs = {}]

\* -------------------------------------------------------- leveldb_organizer
\* The longest chain of pending blocks that starts at the pending block b.
RECURSIVE branch_from(_, _)
branch_from(pool, b) ==
    LET kids == {k \in pool : k.prev = b.hash}
        tails == {branch_from(pool, k) : k \in kids}
    IN IF kids = {} THEN <<b>>
       ELSE <<b>> \o (CHOOSE t \in tails : \A u \in tails : Len(u) <= Len(t))

\* The depth of the canonical tip, -1 for an empty chain.
tip_depth(blocks) == IF DOMAIN blocks = {} THEN -1 ELSE Max(DOMAIN blocks)

\* An organizer that also reorganizes onto a branch of equal length.
branch_wins_tie(len, tip, fork) == len >= tip - fork

\* A competing branch wins only when it is strictly longer than the part of the
\* canonical chain above the fork.
branch_wins(len, tip, fork) == len > tip - fork

\* A pending block can be connected when it is the genesis of an empty chain,
\* when its parent is the canonical tip, or when its parent is confirmed below
\* the tip and the branch it starts wins.
connectable(st, b) ==
    LET tip == tip_depth(st.blocks)
    IN IF b.prev = NullHash THEN tip = -1
       ELSE /\ b.prev \in DOMAIN st.blocks_hash
            /\ LET f == st.blocks_hash[b.prev]
               IN \/ f = tip
                  \/ f < tip /\ branch_wins(Len(branch_from(st.orphans, b)), tip, f)

RECURSIVE unconfirm_down_to(_, _, _)
unconfirm_down_to(st, d, fork) ==
    IF d <= fork THEN st
    ELSE unconfirm_down_to(IF d \in DOMAIN st.blocks THEN unconfirm(st, d) ELSE st,
                           d - 1, fork)

RECURSIVE confirm_branch(_, _, _, _)
confirm_branch(st, br, i, fork) ==
    IF i > Len(br) THEN st
    ELSE confirm_branch(confirm(st, br[i], fork + i), br, i + 1, fork)

RECURSIVE removed_hashes(_, _, _)
removed_hashes(blocks, d, fork) ==
    IF d <= fork THEN <<>>
    ELSE (IF d \in DOMAIN blocks THEN <<blocks[d].hash>> ELSE <<>>)
         \o removed_hashes(blocks, d - 1, fork)

\* Reorganization at fork depth f: unconfirm the losing branch from its tip down
\* to the fork, confirm the winning branch in increasing depth order, publish
\* one event.
reorganize(st, f, br) ==
    LET tip == tip_depth(st.blocks)
        st1 == unconfirm_down_to(st, tip, f)
        st2 == confirm_branch(st1, br, 1, f)
    IN relay(st2, [ec |-> "success", fork |-> f,
                   added |-> [i \in 1..Len(br) |-> br[i].hash],
                   removed |-> removed_hashes(st.blocks, tip, f),
                   to |-> {}])

\* One step of the organizer on the pending block b.
connect(st, b) ==
    LET tip == tip_depth(st.blocks)
        f == IF b.prev = NullHash THEN -1 ELSE st.blocks_hash[b.prev]
    IN IF f = tip
       THEN confirm(st, b, f + 1)
       ELSE reorganize(st, f, branch_from(st.orphans, b))

\* organize_->start(): while some pending block can be connected, connect it.
\* The set of the states the organizer can end in, one for each order in which
\* it can take the pending blocks.
RECURSIVE organize(_)
organize(st) ==
    LET ready == {b \in st.orphans : connectable(st, b)}
    IN IF ready = {} THEN {st}
       ELSE UNION {organize(connect(st, b)) : b \in ready}

\* ------------------------------------------------------- leveldb_blockchain
chain_state ==
    [blocks |-> db_blocks, blocks_hash |-> db_blocks_hash, txs |-> db_txs,
     spends |-> db_spends, address |-> db_address, orphans |-> orphans,
     subs |-> subscribers, published |-> published, log |-> <<>>]

commit(st) ==
    /\ db_blocks' = st.blocks
    /\ db_blocks_hash' = st.blocks_hash
    /\ db_txs' = st.txs
    /\ db_spends' = st.spends
    /\ db_address' = st.address
    /\ orphans' = st.orphans
    /\ subscribers' = st.subs
    /\ published' = st.published
    /\ log' = st.log

\* stored_detail->errc() and stored_detail->info() once the organizer has run:
\* confirmed with its depth when the organizer connected the block, otherwise
\* the initial orphan status.
detail_info(trace, h) ==
    LET mine == {i \in 1..Len(trace) : trace[i].hash = h}
    IN IF mine # {} /\ trace[Max(mine)].kind = "confirm"
       THEN [op |-> "store", ec |-> "success", status |-> "confirmed",
             depth |-> trace[Max(mine)].depth]
       ELSE [op |-> "store", ec |-> "success", status |-> "orphan", depth |-> 0]

\* The five tables in the order initialize opens them.
TableNames == <<"blocks", "blocks_hash", "txs", "spends", "address">>

\* initialize that opens the tables before it tries the lock.
initialize_open_first(lock_free, openable) ==
    [result |-> lock_free /\ openable = Len(TableNames),
     flock  |-> lock_free,
     opened |-> openable]

\* initialize(prefix): flock_.try_lock() on db-lock first, false when the lock is
\* held elsewhere; then open_db for each table in turn, false at the first that
\* fails.  lock_free: no other instance holds the lock; openable: how many
\* tables, in order, open_db can open.
initialize(lock_free, openable) ==
    IF ~lock_free
    THEN [result |-> FALSE, flock |-> FALSE, opened |-> 0]
    ELSE [result |-> openable = Len(TableNames), flock |-> TRUE, opened |-> openable]

\* The function start queues: initialize(prefix), then handle_start.
do_start ==
    /\ lifecycle = "new"
    /\ \E lock_free \in BOOLEAN, openable \in 0..Len(TableNames) :
          LET init == initialize(lock_free, openable)
          IN /\ flock' = init.flock
             /\ opened' = init.opened
             /\ IF init.result
                THEN /\ lifecycle' = "running"
                     /\ results' = <<[op |-> "start", ec |-> "success"]>>
                ELSE /\ lifecycle' = "failed"
                     /\ results' = <<[op |-> "start", ec |-> "operation_failed"]>>
    /\ UNCHANGED <<tables, orphans, subscribers, published, flush_counter, log, imports>>

\* stop()
stop ==
    /\ lifecycle = "running"
    /\ lifecycle' = "stopped"
    /\ published' = Append(published,
                           [ec |-> "service_stopped", fork |-> 0, added |-> <<>>,
                            removed |-> <<>>, to |-> subscribers])
    /\ subscribers' = {}
    /\ opened' = 0
    /\ UNCHANGED <<flock, tables, orphans, flush_counter, results, log, imports>>

\* stop() as the calling thread takes it: first the relay of service_stopped,
stop_relay ==
    /\ lifecycle = "running"
    /\ stop_pc = "none"
    /\ stop_pc' = "relayed"
    /\ published' = Append(published,
                           [ec |-> "service_stopped", fork |-> 0, added |-> <<>>,
                            removed |-> <<>>, to |-> subscribers])
    /\ subscribers' = {}
    /\ UNCHANGED <<lifecycle, flock, opened, tables, orphans, flush_counter, results,
                   log, imports, submitted, strand, running, began, ended, context>>

\* stop_reset that does not wait for the relay.
stop_reset_unordered ==
    /\ lifecycle = "running"
    /\ stop_pc \in {"none", "relayed"}
    /\ stop_pc' = "returned"
    /\ lifecycle' = "stopped"
    /\ opened' = 0
    /\ UNCHANGED <<flock, tables, orphans, subscribers, published, flush_counter,
                   results, log, imports, submitted, strand, running, began, ended,
                   context>>

\* then the reset of the five db_*_l1 handles.
stop_reset ==
    /\ lifecycle = "running"
    /\ stop_pc = "relayed"
    /\ stop_pc' = "returned"
    /\ lifecycle' = "stopped"
    /\ opened' = 0
    /\ UNCHANGED <<flock, tables, orphans, subscribers, published, flush_counter,
                   results, log, imports, submitted, strand, running, began, ended,
                   context>>

\* subscribe_reorganize(handle_reorganize)
Handlers == {"h1", "h2"}

subscribe_reorganize(h) ==
    /\ h \notin subscribers
    /\ subscribers' = subscribers \cup {h}
    /\ UNCHANGED <<lifecycle, flock, opened, tables, orphans, published, flush_counter,
                   results, log, imports>>

\* do_store without the return that follows the duplicate report for a confirmed
\* block: the block goes on to the pool, the organizer and the flush counter.
do_store_fallthrough(b) ==
    /\ lifecycle = "running"
    /\ flush_counter < MaxStores
    /\ LET depth == find_index(db_blocks_hash, hash_block_header(b))
           zeroth == IF depth # NoIndex
                     THEN <<[op |-> "store", ec |-> "duplicate",
                             status |-> "confirmed", depth |-> depth]>>
                     ELSE <<>>
           added == orphans_add_ok(orphans, b)
           first == IF added THEN <<>>
                    ELSE <<[op |-> "store", ec |-> "duplicate",
                            status |-> "orphan", depth |-> 0]>>
       IN \E st \in organize([chain_state EXCEPT !.orphans = orphans_add(@, b)]) :
             /\ commit(st)
             /\ results' = zeroth \o first \o <<IF added THEN detail_info(st.log, b.hash)
                                                ELSE detail_info(<<>>, b.hash)>>
             /\ flush_counter' = IF flush_counter + 1 = FlushInterval
                                 THEN 0 ELSE flush_counter + 1
    /\ UNCHANGED <<lifecycle, flock, opened, imports>>

\* do_store without the call of organize_->start(): the block is pooled and
\* reported, and nothing is connected.
do_store_unorganized(b) ==
    /\ lifecycle = "running"
    /\ flush_counter < MaxStores
    /\ LET depth == find_index(db_blocks_hash, hash_block_header(b))
       IN IF depth # NoIndex
          THEN /\ results' = <<[op |-> "store", ec |-> "duplicate",
                                status |-> "confirmed", depth |-> depth]>>
               /\ UNCHANGED <<tables, orphans, subscribers, published, flush_counter,
                              log>>
          ELSE LET added == orphans_add_ok(orphans, b)
                   first == IF added THEN <<>>
                            ELSE <<[op |-> "store", ec |-> "duplicate",
                                    status |-> "orphan", depth |-> 0]>>
               IN /\ commit([chain_state EXCEPT !.orphans = orphans_add(@, b)])
                  /\ results' = first \o <<detail_info(<<>>, b.hash)>>
                  /\ flush_counter' = IF flush_counter + 1 = FlushInterval
                                      THEN 0 ELSE flush_counter + 1
    /\ UNCHANGED <<lifecycle, flock, opened, imports>>

\* do_store(stored_block, handle_store)
do_store(b) ==
    /\ lifecycle = "running"
    /\ flush_counter < MaxStores
    /\ LET depth == find_index(db_blocks_hash, hash_block_header(b))
       IN IF depth # NoIndex
          THEN /\ results' = <<[op |-> "store", ec |-> "duplicate",
                                status |-> "confirmed", depth |-> depth]>>
               /\ UNCHANGED <<tables, orphans, subscribers, published, flush_counter,
                              log>>
          ELSE LET added == orphans_add_ok(orphans, b)
                   first == IF added THEN <<>>
                            ELSE <<[op |-> "store", ec |-> "duplicate",
                                    status |-> "orphan", depth |-> 0]>>
               IN \E st \in organize([chain_state EXCEPT !.orphans = orphans_add(@, b)]) :
                  /\ commit(st)
                  /\ results' = first \o <<IF added THEN detail_info(st.log, b.hash)
                                           ELSE detail_info(<<>>, b.hash)>>
                  /\ flush_counter' = IF flush_counter + 1 = FlushInterval
                                      THEN 0 ELSE flush_counter + 1
    /\ UNCHANGED <<lifecycle, flock, opened, imports>>

\* do_import that starts the organizer once the block is written.
do_import_organized(b, depth) ==
    /\ lifecycle = "running"
    /\ imports < MaxImports
    /\ imports' = imports + 1
    /\ \E saved \in BOOLEAN :
          IF ~saved
          THEN /\ results' = <<[op |-> "import", ec |-> "operation_failed"]>>
               /\ UNCHANGED <<tables, orphans, subscribers, published, log>>
          ELSE \E st \in organize(save_block(chain_state, depth, b)) :
                  /\ commit(st)
                  /\ results' = <<[op |-> "import", ec |-> "success"]>>
    /\ UNCHANGED <<lifecycle, flock, opened, flush_counter>>

\* do_import(import_block, depth, handle_import)
do_import(b, depth) ==
    /\ lifecycle = "running"
    /\ imports < MaxImports
    /\ imports' = imports + 1
    /\ \E saved \in BOOLEAN :
          IF ~saved
          THEN /\ results' = <<[op |-> "import", ec |-> "operation_failed"]>>
               /\ UNCHANGED tables
          ELSE LET st == save_block(chain_state, depth, b)
               IN /\ db_blocks' = st.blocks
                  /\ db_blocks_hash' = st.blocks_hash
                  /\ db_txs' = st.txs
                  /\ db_spends' = st.spends
                  /\ db_address' = st.address
                  /\ results' = <<[op |-> "import", ec |-> "success"]>>
    /\ UNCHANGED <<lifecycle, flock, opened, orphans, subscribers, published, flush_counter, log>>

\* fetch_block_header_impl(index, common, serial_block), with its caller's two
\* reports: the header of the record, which leaves the transactions out.
fetch_block_header_impl(proto_block) ==
    IF ~proto_block[1]
    THEN [op |-> "fetch_block_header", ec |-> "not_found", hash |-> NullHash,
          prev |-> NullHash]
    ELSE [op |-> "fetch_block_header", ec |-> "success", hash |-> proto_block[2].hash,
          prev |-> proto_block[2].prev]

\* fetch_block_header_by_depth(depth, handle_fetch)
fetch_block_header_by_depth(depth) ==
    /\ lifecycle = "running"
    /\ results' = <<fetch_block_header_impl(fetch_proto_block_by_depth(db_blocks, depth))>>
    /\ UNCHANGED <<lifecycle, flock, opened, tables, orphans, subscribers, published,
                   flush_counter, log, imports>>

\* fetch_block_header_by_hash(block_hash, handle_fetch)
fetch_block_header_by_hash(h) ==
    /\ lifecycle = "running"
    /\ results' = <<fetch_block_header_impl(
                       fetch_proto_block_by_hash(db_blocks, db_blocks_hash, h))>>
    /\ UNCHANGED <<lifecycle, flock, opened, tables, orphans, subscribers, published,
                   flush_counter, log, imports>>

\* The loop of fetch_blk_tx_hashes_impl: each raw hash of the record becomes an
\* inventory vector that is pushed to the back of the list.
RECURSIVE push_back_tx_hashes(_, _, _)
push_back_tx_hashes(tx_hashes, raw, i) ==
    IF i > Len(raw) THEN tx_hashes
    ELSE push_back_tx_hashes(Append(tx_hashes, raw[i]), raw, i + 1)

\* fetch_blk_tx_hashes_impl that puts each hash in front of the list.
RECURSIVE push_front_tx_hashes(_, _, _)
push_front_tx_hashes(tx_hashes, raw, i) ==
    IF i > Len(raw) THEN tx_hashes
    ELSE push_front_tx_hashes(<<raw[i]>> \o tx_hashes, raw, i + 1)

fetch_blk_tx_hashes_result_reversed(proto_block) ==
    IF ~proto_block[1]
    THEN [op |-> "fetch_block_transaction_hashes", ec |-> "not_found",
          tx_hashes |-> <<>>]
    ELSE [op |-> "fetch_block_transaction_hashes", ec |-> "success",
          tx_hashes |-> push_front_tx_hashes(<<>>, proto_block[2].txs, 1)]

\* fetch_blk_tx_hashes_impl(index, common, handle_fetch): what handle_fetch
\* receives, the transaction hashes of the record in the block's order.
fetch_blk_tx_hashes_result(proto_block) ==
    IF ~proto_block[1]
    THEN [op |-> "fetch_block_transaction_hashes", ec |-> "not_found",
          tx_hashes |-> <<>>]
    ELSE [op |-> "fetch_block_transaction_hashes", ec |-> "success",
          tx_hashes |-> push_back_tx_hashes(<<>>, proto_block[2].txs, 1)]

fetch_blk_tx_hashes_impl(proto_block) ==
    /\ lifecycle = "running"
    /\ results' = <<fetch_blk_tx_hashes_result(proto_block)>>
    /\ UNCHANGED <<lifecycle, flock, opened, tables, orphans, subscribers, published,
                   flush_counter, log, imports>>

\* do_fetch_block_depth comparing the depth it read with 0 instead of the
\* largest 32-bit value.
fetch_block_depth_result_zero(blocks_hash, h) ==
    LET depth == common_fetch_block_depth(blocks_hash, h)
    IN IF depth = 0
       THEN [op |-> "fetch_block_depth", ec |-> "not_found", depth |-> 0]
       ELSE [op |-> "fetch_block_depth", ec |-> "success", depth |-> depth]

\* do_fetch_block_depth(block_hash, handle_fetch): what handle_fetch receives.
fetch_block_depth_result(blocks_hash, h) ==
    LET depth == common_fetch_block_depth(blocks_hash, h)
    IN IF depth = NotFoundDepth
       THEN [op |-> "fetch_block_depth", ec |-> "not_found", depth |-> 0]
       ELSE [op |-> "fetch_block_depth", ec |-> "success", depth |-> depth]

do_fetch_block_depth(h) ==
    /\ lifecycle = "running"
    /\ results' = <<fetch_block_depth_result(db_blocks_hash, h)>>
    /\ UNCHANGED <<lifecycle, flock, opened, tables, orphans, subscribers, published,
                   flush_counter, log, imports>>

\* do_fetch_last_depth handing back the number of blocks instead of the last
\* depth.
fetch_last_depth_result_count(blocks) ==
    LET last_depth == find_last_block_depth(blocks)
    IN IF last_depth = NotFoundDepth
       THEN [op |-> "fetch_last_depth", ec |-> "not_found", depth |-> 0]
       ELSE [op |-> "fetch_last_depth", ec |-> "success", depth |-> last_depth + 1]

\* do_fetch_last_depth(handle_fetch): what handle_fetch receives.
fetch_last_depth_result(blocks) ==
    LET last_depth == find_last_block_depth(blocks)
    IN IF last_depth = NotFoundDepth
       THEN [op |-> "fetch_last_depth", ec |-> "not_found", depth |-> 0]
       ELSE [op |-> "fetch_last_depth", ec |-> "success", depth |-> last_depth]

do_fetch_last_depth ==
    /\ lifecycle = "running"
    /\ results' = <<fetch_last_depth_result(db_blocks)>>
    /\ UNCHANGED <<lifecycle, flock, opened, tables, orphans, subscribers, published,
                   flush_counter, log, imports>>

\* do_fetch_transaction(transaction_hash, handle_fetch)
fetch_transaction_result(txs, t) ==
    LET proto_tx == fetch_proto_transaction(txs, t)
    IN IF ~proto_tx[1]
       THEN [op |-> "fetch_transaction", ec |-> "not_found", tx |-> NullHash]
       ELSE [op |-> "fetch_transaction", ec |-> "success", tx |-> t]

do_fetch_transaction(t) ==
    /\ lifecycle = "running"
    /\ results' = <<fetch_transaction_result(db_txs, t)>>
    /\ UNCHANGED <<lifecycle, flock, opened, tables, orphans, subscribers, published,
                   flush_counter, log, imports>>

\* do_fetch_transaction_index(transaction_hash, handle_fetch): what handle_fetch
\* receives, the parent depth and index of the transaction record.
fetch_transaction_index_result(txs, t) ==
    LET proto_tx == fetch_proto_transaction(txs, t)
    IN IF ~proto_tx[1]
       THEN [op |-> "fetch_transaction_index", ec |-> "not_found",
             depth |-> 0, index |-> 0]
       ELSE [op |-> "fetch_transaction_index", ec |-> "success",
             depth |-> proto_tx[2].depth, index |-> proto_tx[2].index]

do_fetch_transaction_index(t) ==
    /\ lifecycle = "running"
    /\ results' = <<fetch_transaction_index_result(db_txs, t)>>
    /\ UNCHANGED <<lifecycle, flock, opened, tables, orphans, subscribers, published,
                   flush_counter, log, imports>>

\* do_fetch_spend with the test of fetch_spend's return value inverted.
fetch_spend_result_inverted(spends, op) ==
    LET found == common_fetch_spend(spends, op)
    IN IF found[1]
       THEN [op |-> "fetch_spend", ec |-> "unspent_output", input |-> <<NullHash, 0>>]
       ELSE [op |-> "fetch_spend", ec |-> "success", input |-> found[2]]

\* do_fetch_spend(outpoint, handle_fetch)
fetch_spend_result(spends, op) ==
    LET found == common_fetch_spend(spends, op)
    IN IF ~found[1]
       THEN [op |-> "fetch_spend", ec |-> "unspent_output", input |-> <<NullHash, 0>>]
       ELSE [op |-> "fetch_spend", ec |-> "success", input |-> found[2]]

do_fetch_spend(op) ==
    /\ lifecycle = "running"
    /\ results' = <<fetch_spend_result(db_spends, op)>>
    /\ UNCHANGED <<lifecycle, flock, opened, tables, orphans, subscribers, published,
                   flush_counter, log, imports>>

\* do_fetch_outputs whose loop reads one record past the end of the value.
fetch_outputs_result_overrun(address, a, io_ok) ==
    IF ~io_ok
    THEN [op |-> "fetch_outputs", ec |-> "operation_failed", outputs |-> <<>>]
    ELSE IF a \notin DOMAIN address
    THEN [op |-> "fetch_outputs", ec |-> "not_found", outputs |-> <<>>]
    ELSE [op |-> "fetch_outputs", ec |-> "success",
          outputs |-> Append(address[a], <<NullHash, 0>>)]

\* do_fetch_outputs(address, handle_fetch): what handle_fetch receives; io_ok is
\* whether the Get on the address table came back ok or not found.
fetch_outputs_result(address, a, io_ok) ==
    IF ~io_ok
    THEN [op |-> "fetch_outputs", ec |-> "operation_failed", outputs |-> <<>>]
    ELSE IF a \notin DOMAIN address
    THEN [op |-> "fetch_outputs", ec |-> "not_found", outputs |-> <<>>]
    ELSE [op |-> "fetch_outputs", ec |-> "success", outputs |-> address[a]]

do_fetch_outputs(a) ==
    /\ lifecycle = "running"
    /\ \E io_ok \in BOOLEAN : results' = <<fetch_outputs_result(db_address, a, io_ok)>>
    /\ UNCHANGED <<lifecycle, flock, opened, tables, orphans, subscribers, published,
                   flush_counter, log, imports>>

Init ==
    /\ lifecycle = "new"
    /\ flock = FALSE
    /\ opened = 0
    /\ db_blocks = Empty
    /\ db_blocks_hash = Empty
    /\ db_txs = Empty
    /\ db_spends = Empty
    /\ db_address = Empty
    /\ orphans = {}
    /\ subscribers = {}
    /\ published = <<>>
    /\ flush_counter = 0
    /\ results = <<>>
    /\ log = <<>>
    /\ imports = 0
    /\ submitted = <<>>
    /\ strand = <<>>
    /\ running = {}
    /\ began = <<>>
    /\ ended = <<>>
    /\ stop_pc = "none"
    /\ context = "none"

\* The operations in the order the strand runs them, each as one step, on the
\* blocks of StoreUniverse.
Next ==
    \/ do_start /\ UNCHANGED strand_vars
    \/ stop /\ UNCHANGED strand_vars
    \/ /\ lifecycle = "running"
       /\ \E h \in Handlers : subscribe_reorganize(h) /\ UNCHANGED strand_vars
    \/ \E b \in StoreUniverse : do_store(b) /\ UNCHANGED strand_vars
    \/ \E b \in ImportUniverse, d \in 0..MaxDepth : do_import(b, d) /\ UNCHANGED strand_vars
    \/ \E h \in FetchHashes : do_fetch_block_depth(h) /\ UNCHANGED strand_vars
    \/ do_fetch_last_depth /\ UNCHANGED strand_vars
    \/ \E t \in FetchTxs : do_fetch_transaction(t) /\ UNCHANGED strand_vars
    \/ \E op \in FetchOutPoints : do_fetch_spend(op) /\ UNCHANGED strand_vars
    \/ \E a \in Addresses : do_fetch_outputs(a) /\ UNCHANGED strand_vars

Spec == Init /\ [][Next]_vars

\* Sequences of store calls on all the blocks, with the reads, and no import.
\* Headers and transaction hashes are read at the depth and by the hash of the
\* tip of the second branch.
FetchDepth == 2
FetchHash == 5

NextFork ==
    \/ do_start /\ UNCHANGED strand_vars
    \/ stop /\ UNCHANGED strand_vars
    \/ /\ lifecycle = "running"
       /\ \E h \in Handlers : subscribe_reorganize(h) /\ UNCHANGED strand_vars
    \/ \E b \in BlockUniverse : do_store(b) /\ UNCHANGED strand_vars
    \/ fetch_block_header_by_depth(FetchDepth) /\ UNCHANGED strand_vars
    \/ fetch_block_header_by_hash(FetchHash) /\ UNCHANGED strand_vars
    \/ /\ fetch_blk_tx_hashes_impl(fetch_proto_block_by_depth(db_blocks, FetchDepth))
       /\ UNCHANGED strand_vars
    \/ /\ fetch_blk_tx_hashes_impl(
             fetch_proto_block_by_hash(db_blocks, db_blocks_hash, FetchHash))
       /\ UNCHANGED strand_vars
    \/ \E h \in FetchHashes : do_fetch_block_depth(h) /\ UNCHANGED strand_vars
    \/ do_fetch_last_depth /\ UNCHANGED strand_vars
    \/ \E t \in FetchTxs : do_fetch_transaction(t) /\ UNCHANGED strand_vars
    \/ \E op \in FetchOutPoints : do_fetch_spend(op) /\ UNCHANGED strand_vars
    \/ \E a \in Addresses : do_fetch_outputs(a) /\ UNCHANGED strand_vars

ForkSpec == Init /\ [][NextFork]_vars

\* Stores and imports of one branch of three blocks: blocks are imported under
\* and beside pending blocks, with a handler registered.
ImportBlocks == {BlockOf(1), BlockOf(4), BlockOf(5)}

NextImport ==
    \/ do_start /\ UNCHANGED strand_vars
    \/ lifecycle = "running" /\ subscribe_reorganize("h1") /\ UNCHANGED strand_vars
    \/ \E b \in ImportBlocks : do_store(b) /\ UNCHANGED strand_vars
    \/ \E b \in ImportBlocks, d \in 0..MaxDepth : do_import(b, d) /\ UNCHANGED strand_vars
    \/ do_fetch_last_depth /\ UNCHANGED strand_vars

ImportSpec == Init /\ [][NextImport]_vars

\* ------------------------------------------------------------ async_strand
\* queue(handler): the handler joins the end of the strand's queue and the call
\* returns.
queue(work) ==
    /\ Len(submitted) < MaxSubmit
    /\ submitted' = Append(submitted, work)
    /\ strand' = Append(strand, Len(submitted) + 1)
    /\ UNCHANGED <<running, began, ended, stop_pc, context>>

\* The call runs the handler itself instead of queueing it: the handler begins
\* on the caller's thread, whatever the strand is doing.
call_directly(work) ==
    /\ Len(submitted) < MaxSubmit
    /\ submitted' = Append(submitted, work)
    /\ running' = running \cup {Len(submitted) + 1}
    /\ began' = Append(began, Len(submitted) + 1)
    /\ UNCHANGED <<strand, ended, stop_pc, context>>

\* The strand takes the handler at the head of its queue when no handler of the
\* strand is running.
strand_begin ==
    /\ strand # <<>>
    /\ running = {}
    /\ running' = {Head(strand)}
    /\ strand' = Tail(strand)
    /\ began' = Append(began, Head(strand))
    /\ UNCHANGED <<submitted, ended, stop_pc, context, chain_vars>>

\* The handler that was queued: the bound do_* function with its arguments.
invoke(work) ==
    \/ work.op = "do_start" /\ do_start
    \/ work.op = "do_store" /\ do_store(work.arg)
    \/ work.op = "do_import" /\ do_import(work.arg[1], work.arg[2])
    \/ work.op = "fetch_block_header_by_depth" /\ fetch_block_header_by_depth(work.arg)
    \/ work.op = "fetch_block_header_by_hash" /\ fetch_block_header_by_hash(work.arg)
    \/ /\ work.op = "fetch_blk_tx_hashes_impl_depth"
       /\ fetch_blk_tx_hashes_impl(fetch_proto_block_by_depth(db_blocks, work.arg))
    \/ /\ work.op = "fetch_blk_tx_hashes_impl_hash"
       /\ fetch_blk_tx_hashes_impl(
             fetch_proto_block_by_hash(db_blocks, db_blocks_hash, work.arg))
    \/ work.op = "do_fetch_block_depth" /\ do_fetch_block_depth(work.arg)
    \/ work.op = "do_fetch_transaction_index" /\ do_fetch_transaction_index(work.arg)
    \/ work.op = "do_fetch_last_depth" /\ do_fetch_last_depth
    \/ work.op = "do_fetch_transaction" /\ do_fetch_transaction(work.arg)
    \/ work.op = "do_fetch_spend" /\ do_fetch_spend(work.arg)
    \/ work.op = "do_fetch_outputs" /\ do_fetch_outputs(work.arg)

\* A running handler does its work and returns.
strand_end ==
    \E t \in running :
       /\ invoke(submitted[t])
       /\ running' = running \ {t}
       /\ ended' = Append(ended, t)
       /\ context' = "strand"
       /\ UNCHANGED <<submitted, strand, began, stop_pc>>

\* A handler that is running when stop() has reset the handles: common_ keeps
\* the raw pointers of the deleted tables, so what the handler does is
\* undefined.  The process dies, or the handler returns having reported
\* anything at all.
strand_end_after_stop ==
    \E t \in running :
       /\ lifecycle = "stopped"
       /\ running' = running \ {t}
       /\ ended' = Append(ended, t)
       /\ \/ lifecycle' = "crashed" /\ UNCHANGED <<results, context>>
          \/ /\ results' = <<[op |-> submitted[t].op, ec |-> "undefined"]>>
             /\ context' = "strand"
             /\ UNCHANGED lifecycle
       /\ UNCHANGED <<flock, opened, tables, orphans, subscribers, published,
                      flush_counter, log, imports, submitted, strand, began, stop_pc>>

\* ------------------------------------------- leveldb_blockchain, the callers' side
\* start(prefix, handle_start)
start == queue([op |-> "do_start", arg |-> 0]) /\ UNCHANGED chain_vars

\* store that calls do_store instead of queueing it.
store_unqueued(b) == call_directly([op |-> "do_store", arg |-> b]) /\ UNCHANGED chain_vars

\* store(stored_block, handle_store)
store(b) == queue([op |-> "do_store", arg |-> b]) /\ UNCHANGED chain_vars

\* import(import_block, depth, handle_import)
import(b, depth) == queue([op |-> "do_import", arg |-> <<b, depth>>]) /\ UNCHANGED chain_vars

\* fetch_block_header(depth, handle_fetch) and
\* fetch_block_header(block_hash, handle_fetch)
fetch_block_header(by, index) ==
    queue([op |-> IF by = "depth" THEN "fetch_block_header_by_depth"
                  ELSE "fetch_block_header_by_hash",
           arg |-> index]) /\ UNCHANGED chain_vars

\* fetch_block_transaction_hashes(depth, handle_fetch) and
\* fetch_block_transaction_hashes(block_hash, handle_fetch)
fetch_block_transaction_hashes(by, index) ==
    queue([op |-> IF by = "depth" THEN "fetch_blk_tx_hashes_impl_depth"
                  ELSE "fetch_blk_tx_hashes_impl_hash",
           arg |-> index]) /\ UNCHANGED chain_vars

\* fetch_transaction_index(transaction_hash, handle_fetch)
fetch_transaction_index(t) ==
    queue([op |-> "do_fetch_transaction_index", arg |-> t]) /\ UNCHANGED chain_vars

\* fetch_block_depth(block_hash, handle_fetch)
fetch_block_depth(h) ==
    queue([op |-> "do_fetch_block_depth", arg |-> h]) /\ UNCHANGED chain_vars

\* fetch_last_depth(handle_fetch)
fetch_last_depth == queue([op |-> "do_fetch_last_depth", arg |-> 0]) /\ UNCHANGED chain_vars

\* fetch_transaction(transaction_hash, handle_fetch)
fetch_transaction(t) ==
    queue([op |-> "do_fetch_transaction", arg |-> t]) /\ UNCHANGED chain_vars

\* fetch_spend(outpoint, handle_fetch)
fetch_spend(op) == queue([op |-> "do_fetch_spend", arg |-> op]) /\ UNCHANGED chain_vars

\* fetch_outputs(address, handle_fetch): an address that is not a pubkey_hash is
\* answered in the call itself, any other is queued.
PaymentTypes == {"pubkey_hash", "script_hash"}

\* fetch_outputs with the test of the address type the wrong way round.
fetch_outputs_inverted(a, type) ==
    IF type = "pubkey_hash"
    THEN /\ results' = <<[op |-> "fetch_outputs", ec |-> "unsupported_payment_type",
                          outputs |-> <<>>]>>
         /\ context' = "caller"
         /\ UNCHANGED <<lifecycle, flock, opened, tables, orphans, subscribers,
                        published, flush_counter, log, imports, submitted, strand,
                        running, began, ended, stop_pc>>
    ELSE queue([op |-> "do_fetch_outputs", arg |-> a]) /\ UNCHANGED chain_vars

\* fetch_outputs without the else: the rejected address is queued all the same.
fetch_outputs_no_else(a, type) ==
    /\ Len(submitted) < MaxSubmit
    /\ submitted' = Append(submitted, [op |-> "do_fetch_outputs", arg |-> a])
    /\ strand' = Append(strand, Len(submitted) + 1)
    /\ IF type # "pubkey_hash"
       THEN /\ results' = <<[op |-> "fetch_outputs", ec |-> "unsupported_payment_type",
                             outputs |-> <<>>]>>
            /\ context' = "caller"
       ELSE UNCHANGED <<results, context>>
    /\ UNCHANGED <<lifecycle, flock, opened, tables, orphans, subscribers, published,
                   flush_counter, log, imports, running, began, ended, stop_pc>>

fetch_outputs(a, type) ==
    IF type # "pubkey_hash"
    THEN /\ results' = <<[op |-> "fetch_outputs", ec |-> "unsupported_payment_type",
                          outputs |-> <<>>]>>
         /\ context' = "caller"
         /\ UNCHANGED <<lifecycle, flock, opened, tables, orphans, subscribers,
                        published, flush_counter, log, imports, submitted, strand,
                        running, began, ended, stop_pc>>
    ELSE queue([op |-> "do_fetch_outputs", arg |-> a]) /\ UNCHANGED chain_vars

\* The callers and the strand: calls arrive at any moment, start first; the
\* strand begins and ends the queued handlers.
QueueNext ==
    \/ submitted = <<>> /\ start
    \/ submitted # <<>> /\ store(BlockOf(1))
    \/ submitted # <<>> /\ import(BlockOf(4), 0)
    \/ submitted # <<>> /\ \E by \in {"depth", "hash"} : fetch_block_header(by, 1)
    \/ /\ submitted # <<>>
       /\ \E by \in {"depth", "hash"} : fetch_block_transaction_hashes(by, 0)
    \/ submitted # <<>> /\ fetch_block_depth(1)
    \/ submitted # <<>> /\ fetch_transaction_index(11)
    \/ submitted # <<>> /\ fetch_last_depth
    \/ submitted # <<>> /\ fetch_transaction(11)
    \/ submitted # <<>> /\ fetch_spend(<<11, 0>>)
    \/ submitted # <<>> /\ \E type \in PaymentTypes : fetch_outputs("X", type)
    \/ strand_begin
    \/ strand_end

QueueSpec == Init /\ [][QueueNext]_vars

\* The callers, the strand and the calls the facade does not queue: stop() and
\* subscribe_reorganize run on the thread that calls them, at any moment.
CallNext ==
    \/ submitted = <<>> /\ start
    \/ submitted # <<>> /\ \E h \in {1, 4} : store(BlockOf(h))
    \/ submitted # <<>> /\ fetch_last_depth
    \/ submitted # <<>> /\ \E type \in PaymentTypes : fetch_outputs("X", type)
    \/ \E h \in Handlers : subscribe_reorganize(h) /\ UNCHANGED strand_vars
    \/ stop_relay
    \/ stop_reset
    \/ strand_begin
    \/ strand_end
    \/ strand_end_after_stop

CallSpec == Init /\ [][CallNext]_vars

\* The pool on its own, filled beyond its capacity: blocks of MaxPoolBlocks
\* hashes with parents nobody knows, and a second block object of hash 1.  The
\* hashes come in, any of those seen so far or one of the next two.
PoolBlocks ==
    {[hash |-> h, prev |-> 100 + h, txs |-> <<100 + h>>] : h \in 1..MaxPoolBlocks}
       \cup {[hash |-> 1, prev |-> 101, txs |-> <<101, 102>>]}

pool_add(b) ==
    /\ b.hash <= Cardinality(orphans) + 2
    /\ orphans' = orphans_add(orphans, b)
    /\ results' = <<[op |-> "add", ok |-> orphans_add_ok(orphans, b)]>>
    /\ UNCHANGED <<lifecycle, flock, opened, tables, subscribers, published,
                   flush_counter, log, imports, strand_vars>>

NextPool == \E b \in PoolBlocks : pool_add(b)

PoolSpec == Init /\ [][NextPool]_vars

\* ------------------------------------------- the address value, in bytes
\* The value of an address key as leveldb holds it: the output points of the
\* key one after the other, each as the 32 bytes of the transaction hash and
\* the 4 bytes of the output index, least significant byte first.
outpoint_size == 32 + 4

hash_bytes(h) ==
    [i \in 1..32 |-> IF i = 1 THEN h % 256 ELSE IF i = 2 THEN (h \div 256) % 256 ELSE 0]

uint32_bytes(n) == [i \in 1..4 |-> (n \div (256 ^ (i - 1))) % 256]

serialize_outpoint(point) == hash_bytes(point[1]) \o uint32_bytes(point[2])

RECURSIVE address_value(_)
address_value(points) ==
    IF points = <<>> THEN <<>>
    ELSE serialize_outpoint(Head(points)) \o address_value(Tail(points))

\* The deserializer over one raw output point: the hash, then the index.
read_hash(raw_outpoint) == raw_outpoint[1] + 256 * raw_outpoint[2]

read_4_bytes(raw_outpoint) ==
    raw_outpoint[33] + 256 * raw_outpoint[34] + 65536 * raw_outpoint[35]
        + 16777216 * raw_outpoint[36]

\* The record loop with a step of the hash alone.
RECURSIVE read_outpoints_hash_step(_, _, _)
read_outpoints_hash_step(outpoints, it, assoc_outs) ==
    IF it = Len(outpoints) + 1
    THEN [overrun |-> FALSE, outputs |-> assoc_outs]
    ELSE IF it + outpoint_size > Len(outpoints) + 1
    THEN [overrun |-> TRUE, outputs |-> assoc_outs]
    ELSE LET raw_outpoint == SubSeq(outpoints, it, it + outpoint_size - 1)
         IN read_outpoints_hash_step(outpoints, it + 32,
               Append(assoc_outs, <<read_hash(raw_outpoint), read_4_bytes(raw_outpoint)>>))

\* The record loop of do_fetch_outputs: it runs from the begin of the value
\* in steps of outpoint_size until it equals the end. A step that would pass
\* the end reads beyond the value and never meets the end: overrun.
RECURSIVE read_outpoints(_, _, _)
read_outpoints(outpoints, it, assoc_outs) ==
    IF it = Len(outpoints) + 1
    THEN [overrun |-> FALSE, outputs |-> assoc_outs]
    ELSE IF it + outpoint_size > Len(outpoints) + 1
    THEN [overrun |-> TRUE, outputs |-> assoc_outs]
    ELSE LET raw_outpoint == SubSeq(outpoints, it, it + outpoint_size - 1)
         IN read_outpoints(outpoints, it + outpoint_size,
               Append(assoc_outs, <<read_hash(raw_outpoint), read_4_bytes(raw_outpoint)>>))

\* do_fetch_outputs with the two failure reports exchanged.
fetch_outputs_bytes_swapped(address, a, io_ok) ==
    IF ~io_ok
    THEN [op |-> "fetch_outputs", ec |-> "not_found", outputs |-> <<>>]
    ELSE IF a \notin DOMAIN address
    THEN [op |-> "fetch_outputs", ec |-> "operation_failed", outputs |-> <<>>]
    ELSE LET r == read_outpoints(address_value(address[a]), 1, <<>>)
         IN [op |-> "fetch_outputs", ec |-> IF r.overrun THEN "undefined" ELSE "success",
             outputs |-> r.outputs]

\* do_fetch_outputs on the bytes of the value: a Get that fails otherwise than
\* with NotFound is operation_failed, a missing key is not_found, and a value
\* is read record by record. What an overrun hands over is undefined.
fetch_outputs_bytes(address, a, io_ok) ==
    IF ~io_ok
    THEN [op |-> "fetch_outputs", ec |-> "operation_failed", outputs |-> <<>>]
    ELSE IF a \notin DOMAIN address
    THEN [op |-> "fetch_outputs", ec |-> "not_found", outputs |-> <<>>]
    ELSE LET r == read_outpoints(address_value(address[a]), 1, <<>>)
         IN [op |-> "fetch_outputs", ec |-> IF r.overrun THEN "undefined" ELSE "success",
             outputs |-> r.outputs]

do_fetch_outputs_bytes(a) ==
    /\ lifecycle = "running"
    /\ \E io_ok \in BOOLEAN :
          LET r == fetch_outputs_bytes(db_address, a, io_ok)
          IN /\ results' = <<r>>
             /\ lifecycle' \in IF r.ec = "undefined" THEN {lifecycle, "crashed"}
                               ELSE {lifecycle}
    /\ UNCHANGED <<flock, opened, tables, orphans, subscribers, published,
                   flush_counter, log, imports>>

\* The stores of every block of both branches and fetch_outputs on the bytes of
\* the values they leave.
NextRecord ==
    \/ do_start /\ UNCHANGED strand_vars
    \/ \E b \in BlockUniverse : do_store(b) /\ UNCHANGED strand_vars
    \/ \E a \in Addresses : do_fetch_outputs_bytes(a) /\ UNCHANGED strand_vars

RecordSpec == Init /\ [][NextRecord]_vars

\* ------------------------------------------------- import at any depth
\* The depths import is called with: the low depths and the greatest value of
\* 32 bits.
ImportDepths == (0..MaxDepth) \cup {NotFoundDepth}

\* import at any of these depths, and the reads of the depth.
NextDepth ==
    \/ do_start /\ UNCHANGED strand_vars
    \/ \E b \in BlockUniverse, depth \in ImportDepths :
          do_import(b, depth) /\ UNCHANGED strand_vars
    \/ \E h \in BlockHashes : do_fetch_block_depth(h) /\ UNCHANGED strand_vars
    \/ do_fetch_last_depth /\ UNCHANGED strand_vars

DepthSpec == Init /\ [][NextDepth]_vars

\* ------------------------------------------------------------------ bip38
\* The greatest lot and sequence of a token, and the bits of the sequence.
max_token_lot == 1048575
max_token_sequence == 4095
max_sequence_bits == 12

\* The lots and sequences create_token is called with, and the salt.
TokenLots == {0, 1, 2, 3, 16, 4095, 4096, 1048574, 1048575, 1048576, 2097152}
TokenSequences == {0, 1, 2, 3, 255, 256, 4094, 4095, 4096, 8191, 1048576}
TokenSalt == <<222, 173, 190, 239>>

\* A 32-bit unsigned value is held as its two 16-bit halves.
shift_left(value, bits) ==
    [hi |-> (value \div (2 ^ (16 - bits))) % 65536,
     lo |-> (value % (2 ^ (16 - bits))) * (2 ^ bits)]

\* a || b of C++: 1 when either operand is not zero, 0 otherwise.
logical_or(a, b) ==
    [hi |-> 0, lo |-> IF a # [hi |-> 0, lo |-> 0] \/ b # 0 THEN 1 ELSE 0]

to_big_endian(value) ==
    <<value.hi \div 256, value.hi % 256, value.lo \div 256, value.lo % 256>>

\* The entropy of create_token: the salt, then lot_sequence, big-endian.
token_entropy(salt, lot, sequence) ==
    LET lot_sequence == logical_or(shift_left(lot, max_sequence_bits), sequence)
    IN salt \o to_big_endian(lot_sequence)

\* create_token(out_token, passphrase, salt, lot, sequence): the call, what it
\* returns, and the entropy of the token it built. scrypt may fail.
create_token(salt, lot, sequence) ==
    /\ \E scrypt_ok \in BOOLEAN :
          results' =
             <<[op |-> "create_token", lot |-> lot, sequence |-> sequence,
                ok |-> /\ lot <= max_token_lot
                       /\ sequence <= max_token_sequence
                       /\ scrypt_ok,
                entropy |-> IF lot > max_token_lot \/ sequence > max_token_sequence
                               \/ ~scrypt_ok
                            THEN <<>>
                            ELSE token_entropy(salt, lot, sequence)]>>
    /\ UNCHANGED <<lifecycle, flock, opened, tables, orphans, subscribers, published,
                   flush_counter, log, imports>>

\* The bits of a byte.
RECURSIVE bit_and(_, _, _)
bit_and(a, b, i) ==
    IF i > 7 THEN 0
    ELSE ((a \div (2 ^ i)) % 2) * ((b \div (2 ^ i)) % 2) * (2 ^ i) + bit_and(a, b, i + 1)

bit_or(a, b) == a + b - bit_and(a, b, 0)

\* Byte array semantic partitions of the encrypted private key.
at_private_key_flags == [start |-> 2, end |-> 3]
at_private_key_version == [start |-> 0, end |-> 1]

slice(key, bounds) == SubSeq(key, bounds.start + 1, bounds.end)

prefix_private_key == <<1, 66>>
prefix_private_key_multiplied == <<1, 67>>

\* enum flag_byte
flag_byte_none == 0
flag_byte_lot_sequence == 2 ^ 2
flag_byte_ec_compressed == 2 ^ 5
flag_byte_ec_non_multiplied_low == 2 ^ 6
flag_byte_ec_non_multiplied_high == 2 ^ 7
flag_byte_ec_non_multiplied ==
    bit_or(flag_byte_ec_non_multiplied_low, flag_byte_ec_non_multiplied_high)

check_flag(key, flags_position, flag) ==
    bit_and(key[flags_position.start + 1], flag, 0) # 0

\* generate_flag_byte with the test of multiplied the other way round.
generate_flag_byte_inverted(multiplied, compressed, lot_seq) ==
    LET byte1 == IF lot_seq THEN bit_or(flag_byte_none, flag_byte_lot_sequence)
                 ELSE flag_byte_none
        byte2 == IF compressed THEN bit_or(byte1, flag_byte_ec_compressed) ELSE byte1
    IN IF multiplied THEN bit_or(byte2, flag_byte_ec_non_multiplied) ELSE byte2

generate_flag_byte(multiplied, compressed, lot_seq) ==
    LET byte1 == IF lot_seq THEN bit_or(flag_byte_none, flag_byte_lot_sequence)
                 ELSE flag_byte_none
        byte2 == IF compressed THEN bit_or(byte1, flag_byte_ec_compressed) ELSE byte1
    IN IF ~multiplied THEN bit_or(byte2, flag_byte_ec_non_multiplied) ELSE byte2

\* new_flags(compressed) and new_flags(token, compressed); is_lot tells whether
\* the token carries the lot_token prefix.
new_flags(compressed) == <<generate_flag_byte(FALSE, compressed, FALSE)>>
new_flags_token(is_lot, compressed) == <<generate_flag_byte(TRUE, compressed, is_lot)>>

\* convert_version that maps 0 to 1 and leaves 1 where it is.
convert_version_one_way(version) == IF version = 0 THEN 1 ELSE version

convert_version(version) ==
    CASE version = 0 -> 1
      [] version = 1 -> 0
      [] OTHER -> version

read_version(key) == convert_version(slice(key, at_private_key_version)[1])

versioned_prefix(address_version, prefix) ==
    [prefix EXCEPT ![1] = convert_version(address_version)]

\* The address versions the keys are made for, and the bytes of a key behind
\* its flags (salt and encrypted halves), which are not looked into here.
AddressVersions == {0, 1, 2, 5, 48, 111, 128, 255}
KeyBody == [i \in 1..36 |-> 0]

\* encrypt(out_private, secret, passphrase, address_version, compressed):
\* scrypt may fail; the key is prefix, flags, salt and the two halves.
encrypt(address_version, compressed) ==
    /\ \E scrypt_ok \in BOOLEAN :
          results' =
             <<[op |-> "encrypt", ok |-> scrypt_ok, address_version |-> address_version,
                multiplied |-> FALSE, compressed |-> compressed, lot |-> FALSE,
                key |-> IF ~scrypt_ok THEN <<>>
                        ELSE versioned_prefix(address_version, prefix_private_key)
                                \o new_flags(compressed) \o KeyBody]>>
    /\ UNCHANGED <<lifecycle, flock, opened, tables, orphans, subscribers, published,
                   flush_counter, log, imports>>

\* create_private_key(out_private, flags, ..., address_version): the key.
create_private_key(flags, address_version) ==
    versioned_prefix(address_version, prefix_private_key_multiplied) \o flags \o KeyBody

\* create_key_pair(out_private, out_public, token, seed, address_version,
\* compressed): the checksum of the token or scrypt may fail.
create_key_pair(is_lot, address_version, compressed) ==
    /\ \E token_ok \in BOOLEAN :
          results' =
             <<[op |-> "create_key_pair", ok |-> token_ok,
                address_version |-> address_version, multiplied |-> TRUE,
                compressed |-> compressed, lot |-> is_lot,
                key |-> IF ~token_ok THEN <<>>
                        ELSE create_private_key(new_flags_token(is_lot, compressed),
                                                address_version)]>>
    /\ UNCHANGED <<lifecycle, flock, opened, tables, orphans, subscribers, published,
                   flush_counter, log, imports>>

\* decrypt(out_secret, key, passphrase) of the key made last: the version it
\* reads and the path it takes, put behind the record of the call that made
\* the key.
decrypt ==
    /\ Len(results) = 1
    /\ results[1].op \in {"encrypt", "create_key_pair"}
    /\ results[1].ok
    /\ \E checksum_ok \in BOOLEAN :
          LET key == results[1].key
              address_version == read_version(key)
              multiplied == ~check_flag(key, at_private_key_flags,
                                        flag_byte_ec_non_multiplied)
          IN results' =
                <<results[1],
                  [op |-> "decrypt", key |-> key,
                   address_version |-> IF checksum_ok THEN address_version ELSE 0,
                   path |-> IF ~checksum_ok THEN "none"
                            ELSE IF multiplied THEN "multiplied_secret"
                            ELSE "secret"]>>
    /\ UNCHANGED <<lifecycle, flock, opened, tables, orphans, subscribers, published,
                   flush_counter, log, imports>>

NextBip38 ==
    \/ \E lot \in TokenLots, sequence \in TokenSequences :
          create_token(TokenSalt, lot, sequence) /\ UNCHANGED strand_vars
    \/ \E address_version \in AddressVersions, compressed \in BOOLEAN :
          encrypt(address_version, compressed) /\ UNCHANGED strand_vars
    \/ \E is_lot \in BOOLEAN, address_version \in AddressVersions, compressed \in BOOLEAN :
          create_key_pair(is_lot, address_version, compressed) /\ UNCHANGED strand_vars
    \/ decrypt /\ UNCHANGED strand_vars

Bip38Spec == Init /\ [][NextBip38]_vars

\* ------------------------------------------------------------------ claims
Confirmed == DOMAIN db_blocks_hash

\* The confirmations of the most recent do_store that no later step of the same
\* organizer run reversed.
StandingConfirms ==
    {i \in 1..Len(log) :
        /\ log[i].kind = "confirm"
        /\ \A j \in (i + 1)..Len(log) : log[j].hash # log[i].hash}

\* C1: after any sequence of store calls no two confirmed blocks share a depth,
\* a confirmed block's depth is its parent's depth + 1 (0 for the genesis block),
\* and fetch_block_depth of a confirmed block's hash succeeds with the depth at
\* which the block was confirmed: the depth its record is stored under and the
\* depth the organizer assigned to it.
C1_DepthsUniqueLinkedFetched ==
    /\ \A h1 \in Confirmed, h2 \in Confirmed :
          h1 # h2 => db_blocks_hash[h1] # db_blocks_hash[h2]
    /\ \A h \in Confirmed :
          IF BlockOf(h).prev = NullHash THEN db_blocks_hash[h] = 0
          ELSE /\ BlockOf(h).prev \in Confirmed
               /\ db_blocks_hash[h] = db_blocks_hash[BlockOf(h).prev] + 1
    /\ \A d \in DOMAIN db_blocks :
          fetch_block_depth_result(db_blocks_hash, db_blocks[d].hash)
              = [op |-> "fetch_block_depth", ec |-> "success", depth |-> d]
    /\ \A i \in StandingConfirms :
          fetch_block_depth_result(db_blocks_hash, log[i].hash)
              = [op |-> "fetch_block_depth", ec |-> "success", depth |-> log[i].depth]
    /\ \A h \in Confirmed : \E d \in DOMAIN db_blocks : db_blocks[d].hash = h

\* C1 witness: a fetch_block_depth delivered depth 2 for block 5 on the chain
\* 1-4-5-6 that a reorganization made canonical.
C1_Witness ==
    /\ Confirmed = {1, 4, 5, 6}
    /\ published # <<>>
    /\ results = <<[op |-> "fetch_block_depth", ec |-> "success", depth |-> 2]>>

\* C2: the depths holding a block record are contiguous from 0.
C2_NoGaps == \A d \in DOMAIN db_blocks : d > 0 => (d - 1) \in DOMAIN db_blocks

\* C3: a store of a block whose hash is confirmed reports duplicate, confirmed,
\* with the block's depth, and changes no table, nor the orphan pool, the
\* subscribers, the events published, the flush counter or the organizer trace.
C3_DuplicateConfirmedNoOp ==
    [][\A b \in BlockUniverse :
          (hash_block_header(b) \in Confirmed /\ do_store(b))
          => /\ results' = <<[op |-> "store", ec |-> "duplicate",
                              status |-> "confirmed",
                              depth |-> db_blocks_hash[hash_block_header(b)]]>>
             /\ UNCHANGED <<tables, orphans, subscribers, published, flush_counter,
                            log>>]_vars

\* C3 witness: a duplicate of a confirmed block at depth 1 was reported while a
\* block was pending and a handler was subscribed.
C3_Witness ==
    /\ results = <<[op |-> "store", ec |-> "duplicate", status |-> "confirmed",
                    depth |-> 1]>>
    /\ orphans # {}
    /\ subscribers # {}
    /\ flush_counter > 0

\* The chain state after a step, for the organizer's predicates.
chain_state_after ==
    [blocks |-> db_blocks', blocks_hash |-> db_blocks_hash', txs |-> db_txs',
     spends |-> db_spends', address |-> db_address', orphans |-> orphans',
     subs |-> subscribers', published |-> published', log |-> log']

AllOrphanReports(rs) ==
    /\ rs # <<>>
    /\ \A i \in 1..Len(rs) : rs[i].op = "store" /\ rs[i].status = "orphan"

NotFoundDepthReport == [op |-> "fetch_block_depth", ec |-> "not_found", depth |-> 0]

\* The step is do_store(b); the report is looked at first, as every do_store
\* hands one to handle_store.
Stored(b) == results' # <<>> /\ results'[1].op = "store" /\ do_store(b)

\* store(b) reported orphan and left the depth of b not found.
OrphanReported(b) ==
    /\ AllOrphanReports(results')
    /\ fetch_block_depth_result(db_blocks_hash', b.hash) = NotFoundDepthReport

\* A pending block whose parent is not confirmed and whose depth is not found is
\* still not found after the step, unless the step confirmed its parent.
StaysNotFound(b) ==
    (/\ b \in orphans
     /\ b.prev \notin Confirmed
     /\ fetch_block_depth_result(db_blocks_hash, b.hash) = NotFoundDepthReport)
    => \/ fetch_block_depth_result(db_blocks_hash', b.hash) = NotFoundDepthReport
       \/ b.prev \in DOMAIN db_blocks_hash'

\* C4 as stated: in every step, a store of a block that names a parent which is
\* not confirmed reports orphan, and the depth of a pending block stays not found
\* until its parent is confirmed.
C4_OrphanUntilParent ==
    [][\A b \in BlockUniverse :
          /\ (/\ b.prev # NullHash
              /\ b.prev \notin Confirmed
              /\ b.hash \notin Confirmed
              /\ Stored(b)) => OrphanReported(b)
          /\ StaysNotFound(b)]_vars

\* C4 amended: a store of a block that is not confirmed and whose parent is
\* neither confirmed nor pending reports orphan; and the depth of a pending block
\* whose parent is not confirmed stays not found until its parent is confirmed or
\* an import writes the block itself.
C4_UnknownParentUntilConfirmedOrImported ==
    [][/\ (results' # <<>> /\ results'[1].op = "store") =>
             \A b \in BlockUniverse :
                (/\ b.prev # NullHash
                 /\ b.prev \notin Confirmed
                 /\ b.prev \notin {o.hash : o \in orphans}
                 /\ b.hash \notin Confirmed
                 /\ Stored(b)) => OrphanReported(b)
       /\ \A b \in orphans :
             \/ StaysNotFound(b)
             \/ \E d \in 0..MaxDepth : do_import(b, d)]_vars

\* C4 witness: block 5 was stored while its parent 4 was unknown, and of the
\* probed hashes 2 and 5 fetch_block_depth found nothing for the pending 5.
C4_Witness ==
    /\ {o.hash : o \in orphans} = {5}
    /\ Confirmed = {1, 2}
    /\ imports = 0
    /\ results = <<NotFoundDepthReport>>

\* C5: when a store confirms a block P at depth d, a pending child of P is
\* confirmed at d + 1 by the same store, and so on down the chain; every block
\* is confirmed after its parent, one depth above it; a block that was confirmed
\* has left the orphan pool; and the store leaves no pending block that could be
\* connected.
C5_DescendantsFollow ==
    [][\A b \in BlockUniverse : (b.hash \notin Confirmed /\ Stored(b)) =>
          /\ \A i \in 1..Len(log') :
                log'[i].kind = "confirm" =>
                   LET c == BlockOf(log'[i].hash)
                   IN IF c.prev = NullHash THEN log'[i].depth = 0
                      ELSE \/ \E j \in 1..(i - 1) :
                                 /\ log'[j] = [kind |-> "confirm", hash |-> c.prev,
                                               depth |-> log'[i].depth - 1]
                                 /\ \A k \in (j + 1)..(i - 1) : log'[k].hash # c.prev
                           \/ /\ c.prev \in Confirmed
                              /\ db_blocks_hash[c.prev] = log'[i].depth - 1
                              /\ \A k \in 1..(i - 1) : log'[k].hash # c.prev
          /\ \A i \in 1..Len(log') :
                (/\ log'[i].kind = "confirm"
                 /\ \A j \in (i + 1)..Len(log') : log'[j].hash # log'[i].hash)
                => /\ BlockOf(log'[i].hash) \notin orphans'
                   /\ LET kids == {c \in orphans \cup {b} : c.prev = log'[i].hash}
                      IN kids # {} =>
                            \E c \in kids :
                               /\ c \notin orphans'
                               /\ c.hash \in DOMAIN db_blocks_hash'
                               /\ db_blocks_hash'[c.hash] = log'[i].depth + 1
                               /\ \E j \in (i + 1)..Len(log') :
                                     log'[j] = [kind |-> "confirm", hash |-> c.hash,
                                                depth |-> log'[i].depth + 1]
          /\ \A o \in orphans' : ~connectable(chain_state_after, o)]_vars

\* C5 witness: the store of the genesis block confirmed it and then the pending
\* chain 4, 5 at depths 1 and 2.
C5_Witness ==
    /\ log = <<[kind |-> "confirm", hash |-> 1, depth |-> 0],
               [kind |-> "confirm", hash |-> 4, depth |-> 1],
               [kind |-> "confirm", hash |-> 5, depth |-> 2]>>
    /\ results = <<[op |-> "store", ec |-> "success", status |-> "confirmed",
                    depth |-> 0]>>
    /\ \A o \in orphans : o.hash \notin {1, 4, 5}

\* The events a step published.
NewEvents == SubSeq(published', Len(published) + 1, Len(published'))

\* Where the runs of unconfirm entries start in an organizer trace: one run for
\* each reorganization.
RunStarts(trace) ==
    {i \in 1..Len(trace) :
        /\ trace[i].kind = "unconfirm"
        /\ i = 1 \/ trace[i - 1].kind # "unconfirm"}

NthRunStart(trace, k) ==
    CHOOSE i \in RunStarts(trace) : Cardinality({j \in RunStarts(trace) : j < i}) = k - 1

\* The event ev describes the reorganization the trace records from index s on:
\* the blocks unconfirmed from the old tip down to fork + 1, then the blocks
\* confirmed from fork + 1 up to the new tip.
EventMatchesRun(ev, trace, s) ==
    LET nr == Len(ev.removed)
        na == Len(ev.added)
    IN /\ nr > 0 /\ na > 0
       /\ s + nr + na - 1 <= Len(trace)
       /\ \A j \in 1..nr :
             trace[s + j - 1] = [kind |-> "unconfirm", hash |-> ev.removed[j],
                                 depth |-> ev.fork + nr - j + 1]
       /\ \A j \in 1..na :
             trace[s + nr + j - 1] = [kind |-> "confirm", hash |-> ev.added[j],
                                      depth |-> ev.fork + j]
       /\ s + nr + na <= Len(trace) => trace[s + nr + na].kind = "unconfirm"

\* C6: a store publishes exactly one event for each reorganization it performs,
\* to the handlers subscribed at that moment; the event carries the fork depth,
\* the removed blocks from the old tip down to the fork and the added blocks from
\* the fork up to the new tip; and fetch_last_depth then reports the new tip.
C6_OneEventPerReorganization ==
    [][\A b \in BlockUniverse : (b.hash \notin Confirmed /\ Stored(b)) =>
          /\ Len(NewEvents) = Cardinality(RunStarts(log'))
          /\ published = SubSeq(published', 1, Len(published))
          /\ \A k \in 1..Len(NewEvents) :
                /\ EventMatchesRun(NewEvents[k], log', NthRunStart(log', k))
                /\ NewEvents[k].ec = "success"
                /\ NewEvents[k].to = IF k = 1 THEN subscribers ELSE {}
          /\ NewEvents # <<>> =>
                /\ subscribers' = {}
                /\ LET last == NewEvents[Len(NewEvents)]
                   IN fetch_last_depth_result(db_blocks')
                         = [op |-> "fetch_last_depth", ec |-> "success",
                            depth |-> last.fork + Len(last.added)]]_vars

\* C6 witness: blocks 2 and 3 at depths 1 and 2 were replaced by 4, 5, 6; the one
\* event went to a subscribed handler; fetch_last_depth reported depth 3.
C6_Witness ==
    /\ Len(published) = 1
    /\ published[1].fork = 0
    /\ published[1].removed = <<3, 2>>
    /\ published[1].added = <<4, 5, 6>>
    /\ published[1].to # {}
    /\ results = <<[op |-> "fetch_last_depth", ec |-> "success", depth |-> 3]>>

\* C7: across a store the canonical tip never gets lower; every reorganization
\* adds more blocks than it removes; a block recorded at a depth is replaced or
\* dropped only by a store that raises the tip and publishes an event; and a store
\* that leaves the tip where it was changes no block record and publishes nothing.
C7_OnlyStrictlyLonger ==
    [][\A b \in BlockUniverse : (b.hash \notin Confirmed /\ Stored(b)) =>
          LET tip == tip_depth(db_blocks)
              tip_after == tip_depth(db_blocks')
          IN /\ tip_after >= tip
             /\ \A k \in 1..Len(NewEvents) :
                   Len(NewEvents[k].added) > Len(NewEvents[k].removed)
             /\ (\E d \in DOMAIN db_blocks :
                    d \notin DOMAIN db_blocks' \/ db_blocks'[d] # db_blocks[d])
                => (tip_after > tip /\ NewEvents # <<>>)
             /\ tip_after = tip => (db_blocks' = db_blocks /\ published' = published)
             /\ NewEvents # <<>> => tip_after > tip]_vars

\* C7 witness: with 1, 2, 3 confirmed, the branch 4, 5 of equal length was stored
\* and stays pending; nothing was published.
C7_Witness ==
    /\ db_blocks_hash = [h \in {1, 2, 3} |-> h - 1]
    /\ {o.hash : o \in orphans} = {4, 5}
    /\ published = <<>>
    /\ results = <<[op |-> "store", ec |-> "success", status |-> "orphan", depth |-> 0]>>

\* The transactions of the blocks that are confirmed after a step, and the
\* outputs those transactions spend.
ConfirmedTxsAfter == UNION {Range(BlockOf(h).txs) : h \in DOMAIN db_blocks_hash'}

SpentAfter == UNION {Range(TxInputs(t)) : t \in ConfirmedTxsAfter}

ConfirmedTxs == UNION {Range(BlockOf(h).txs) : h \in Confirmed}

\* C9: every spend that fetch_spend reports is an input of a transaction of a
\* confirmed block, every output that fetch_outputs lists for an address is an
\* output of a transaction of a confirmed block paying to that address, and a
\* pending block that is not confirmed has put nothing into either index.
C9_IndexesFromConfirmedOnly ==
    /\ DOMAIN db_spends \subseteq OutPoints
    /\ DOMAIN db_address \subseteq Addresses
    /\ \A op \in OutPoints :
          LET r == fetch_spend_result(db_spends, op)
          IN r.ec = "success" =>
                \E t \in ConfirmedTxs :
                   \E j \in 1..Len(TxInputs(t)) :
                      TxInputs(t)[j] = op /\ r.input = <<t, j - 1>>
    /\ \A a \in Addresses :
          LET r == fetch_outputs_result(db_address, a, TRUE)
          IN \A k \in 1..Len(r.outputs) :
                LET o == r.outputs[k]
                IN /\ o[1] \in ConfirmedTxs
                   /\ o[2] + 1 \in 1..Len(TxOutputs(o[1]))
                   /\ TxOutputs(o[1])[o[2] + 1] = a
    /\ \A p \in orphans :
          \A t \in Range(p.txs) \ ConfirmedTxs :
             /\ \A op \in DOMAIN db_spends : db_spends[op][1] # t
             /\ \A a \in DOMAIN db_address :
                   \A k \in 1..Len(db_address[a]) : db_address[a][k][1] # t

\* C9 witness: block 5 is pending on the unconfirmed 4, its transaction 15 would
\* spend output 0 of 14, and fetch_outputs for Y lists nothing of it.
C9_Witness ==
    /\ {o.hash : o \in orphans} = {5}
    /\ Confirmed = {1, 2}
    /\ results = <<[op |-> "fetch_outputs", ec |-> "success",
                    outputs |-> <<<<11, 1>>, <<12, 0>>>>]>>

\* C10: at most one queued operation body is running; the bodies begin in the
\* order of submission and return in that order; and when a body has begun,
\* every operation submitted before it has returned.
C10_OneAtATimeInSubmissionOrder ==
    /\ Cardinality(running) <= 1
    /\ \A i \in 1..Len(began) : began[i] = i
    /\ \A i \in 1..Len(ended) : ended[i] = i
    /\ running = Range(began) \ Range(ended)
    /\ \A t \in Range(began) : \A u \in 1..(t - 1) : u \in Range(ended)

\* C10 witness: start, a store and a fetch have run to the end in that order
\* while a fourth operation, submitted during them, is still queued.
C10_Witness ==
    /\ Len(submitted) = 4
    /\ submitted[2].op = "do_store"
    /\ submitted[3].op = "do_fetch_block_depth"
    /\ ended = <<1, 2, 3>>
    /\ strand = <<4>>
    /\ results = <<[op |-> "fetch_block_depth", ec |-> "success", depth |-> 0]>>

\* The report of fetch_outputs for an address that is not a pubkey_hash.
UnsupportedReport ==
    <<[op |-> "fetch_outputs", ec |-> "unsupported_payment_type", outputs |-> <<>>]>>

\* A step that hands one handler to the strand and calls no handler.
QueuedOnly ==
    /\ Len(submitted') = Len(submitted) + 1
    /\ strand' = Append(strand, Len(submitted'))
    /\ UNCHANGED <<results, context>>

\* C11 as stated: no facade operation, fetch_outputs included, calls its handler
\* inside the submitting call on the caller's thread; handlers are called only
\* from the strand.
C11_NeverOnTheCallersThread == context # "caller"

\* C11, amended: every facade operation except fetch_outputs for an address that
\* is not a pubkey_hash only queues its work in the submitting call and calls no
\* handler there; the one handler call made on the caller's thread is the
\* rejection of fetch_outputs for such an address.
C11_OnlyTheRejectionIsSynchronous ==
    [][/\ \A a \in Addresses : fetch_outputs(a, "pubkey_hash") => QueuedOnly
       /\ (start \/ fetch_last_depth \/ \E h \in BlockHashes : store(BlockOf(h)))
             => QueuedOnly
       /\ (context' = "caller" /\ <<results, context>>' # <<results, context>>)
             => /\ \E a \in Addresses, type \in PaymentTypes \ {"pubkey_hash"} :
                      fetch_outputs(a, type)
                /\ results' = UnsupportedReport]_vars

\* A rejection was delivered in the call after a handler of the strand had
\* reported, and a queued fetch_outputs has reported from the strand.
C11_Witness ==
    /\ context = "caller"
    /\ results = UnsupportedReport
    /\ \E t \in 1..Len(ended) : submitted[ended[t]].op = "do_fetch_outputs"

\* C12: fetch_outputs for an address that is not a pubkey_hash calls the handler
\* at once with unsupported_payment_type and an empty list, puts nothing on the
\* strand and leaves every table as it is; for a pubkey_hash address it puts
\* exactly one do_fetch_outputs on the strand.
C12_RejectsBeforeQueueing ==
    [][\A a \in Addresses, type \in PaymentTypes :
          fetch_outputs(a, type) =>
             IF type # "pubkey_hash"
             THEN /\ results' = UnsupportedReport
                  /\ context' = "caller"
                  /\ UNCHANGED <<submitted, strand, running, began, ended, tables>>
             ELSE /\ submitted' = Append(submitted, [op |-> "do_fetch_outputs", arg |-> a])
                  /\ strand' = Append(strand, Len(submitted'))
                  /\ UNCHANGED <<results, context, running, began, ended, tables>>]_vars

\* A rejection was delivered while a handler of the strand was running and
\* another was waiting, and none of the queued handlers is a do_fetch_outputs.
C12_Witness ==
    /\ context = "caller"
    /\ results = UnsupportedReport
    /\ running # {}
    /\ strand # <<>>
    /\ \A t \in 1..Len(submitted) : submitted[t].op # "do_fetch_outputs"

\* The table handles, the pool or the subscriber state differ after the step.
StateTouched ==
    \/ opened' # opened
    \/ tables' # tables
    \/ orphans' # orphans
    \/ subscribers' # subscribers
    \/ published' # published

\* C13: the table handles, the pool and the subscriber state are touched only by
\* handlers of the strand; stop() and subscribe_reorganize never touch them
\* while a queued handler is running.
C13_OnlyOnTheStrand ==
    [][(running # {} /\ StateTouched) => ended' # ended]_vars

\* The event stop() relays, as the handlers in subs receive it.
ServiceStopped(subs) ==
    [ec |-> "service_stopped", fork |-> 0, added |-> <<>>, removed |-> <<>>,
     to |-> subs]

\* C14: stop() gives every handler that is registered and has not fired exactly
\* one event, with service_stopped, fork depth 0 and empty removed and added
\* lists, after which no handler of those is registered; the five table handles
\* are still open then and are released only after that relay.
C14_StopNotifiesThenReleases ==
    [][/\ stop_relay =>
             /\ published' = Append(published, ServiceStopped(subscribers))
             /\ subscribers' = {}
             /\ opened' = opened
       /\ opened' < opened =>
             /\ \E i \in 1..Len(published) : published[i].ec = "service_stopped"
             /\ opened' = 0
             /\ published' = published]_vars

\* stop() has returned: both handlers were registered and each received the
\* service_stopped event, and the handles are released.
C14_Witness ==
    /\ stop_pc = "returned"
    /\ opened = 0
    /\ subscribers = {}
    /\ \E i \in 1..Len(published) : published[i] = ServiceStopped(Handlers)

\* The events of a step that the handler h received.
Fired(h) == {i \in (Len(published) + 1)..Len(published') : h \in published'[i].to}

\* C15: a handler registered by one subscribe_reorganize call is called at most
\* once: it receives an event only while it is registered, one event at most,
\* and is no longer registered after it, so that neither a later reorganization
\* nor service_stopped reaches it; only subscribe_reorganize registers it again.
C15_OneShot ==
    [][\A h \in Handlers :
          /\ Fired(h) # {} =>
                /\ Cardinality(Fired(h)) = 1
                /\ h \in subscribers
                /\ h \notin subscribers'
          /\ (h \in subscribers' /\ h \notin subscribers) =>
                (subscribe_reorganize(h) /\ Fired(h) = {})]_vars

\* h1 received a reorganization event and was not registered again; h2 was
\* registered after that event: the service_stopped event reached h2 alone.
C15_Witness ==
    \E i, k \in 1..Len(published) :
       /\ i < k
       /\ published[i].ec = "success" /\ published[i].to = {"h1"}
       /\ published[k].ec = "service_stopped" /\ published[k].to = {"h2"}

\* The handler of the step's store was told that the block is confirmed now.
StoreConfirms ==
    /\ results'[Len(results')].ec = "success"
    /\ results'[Len(results')].status = "confirmed"

\* C16: the flush counter of do_store advances only on a store that confirms a
\* block, not on one that ends as duplicate or leaves the block pending; the
\* flush happens when the counter reaches 2000 and sets the counter to 0.
C16_CounterCountsConfirmedStores ==
    [][\A h \in BlockHashes :
          Stored(BlockOf(h)) =>
             flush_counter' = IF ~StoreConfirms THEN flush_counter
                              ELSE IF flush_counter + 1 = FlushInterval THEN 0
                              ELSE flush_counter + 1]_vars

\* C17: during start the lock on the directory is tried before any table is
\* opened: a table is open only when the lock is held; when the lock is held
\* elsewhere start fails with no table opened, the start handler is told of the
\* failure, and nothing is tried again after a failed start.
C17_LockBeforeTables ==
    [][/\ (lifecycle = "new" /\ lifecycle' # "new") =>
             /\ opened' > 0 => flock'
             /\ ~flock' =>
                   /\ opened' = 0
                   /\ lifecycle' = "failed"
             /\ lifecycle' = "failed" =>
                   results' = <<[op |-> "start", ec |-> "operation_failed"]>>
       /\ lifecycle = "failed" => UNCHANGED <<lifecycle, flock, opened>>]_vars

\* start has failed on the lock: the handler was told, no table is open, and
\* the work submitted after start is still waiting.
C17_Witness ==
    /\ lifecycle = "failed"
    /\ ~flock
    /\ opened = 0
    /\ results = <<[op |-> "start", ec |-> "operation_failed"]>>
    /\ context = "strand"
    /\ strand # <<>>

\* C18: import(block, depth) writes the block at exactly the given depth and
\* reports success, or reports operation_failed when the write fails; either way
\* the pool is as before, the organizer has not run (no trace, no other depth
\* written or removed), no event is published and the flush counter is as before.
C18_ImportWritesOneDepthOnly ==
    [][\A h \in BlockHashes, d \in 0..(MaxDepth + 1) :
          do_import(BlockOf(h), d) =>
             /\ UNCHANGED <<orphans, subscribers, published, flush_counter, log>>
             /\ \/ /\ results' = <<[op |-> "import", ec |-> "success"]>>
                   /\ db_blocks' = Put(db_blocks, d, BlockOf(h))
                \/ /\ results' = <<[op |-> "import", ec |-> "operation_failed"]>>
                   /\ UNCHANGED db_blocks]_vars

\* Block 4 was imported under the pending block 5, whose parent it is: block 5
\* is still pending and not confirmed, and the registered handler has not fired.
C18_Witness ==
    /\ results = <<[op |-> "import", ec |-> "success"]>>
    /\ 4 \in Confirmed
    /\ 5 \notin Confirmed
    /\ \E o \in orphans : o.hash = 5
    /\ subscribers = {"h1"}
    /\ flush_counter > 0

\* What handle_fetch of fetch_block_header receives for the block b.
HeaderOf(b) ==
    [op |-> "fetch_block_header", ec |-> "success", hash |-> b.hash, prev |-> b.prev]

\* What handle_fetch of fetch_block_transaction_hashes receives for the block b.
TxHashesOf(b) ==
    [op |-> "fetch_block_transaction_hashes", ec |-> "success", tx_hashes |-> b.txs]

\* C19: for every block B that store confirmed at depth d and that is still on
\* the chain, fetch_block_header(d), fetch_block_header(hash(B)),
\* fetch_block_transaction_hashes(d) and fetch_block_transaction_hashes(hash(B))
\* succeed with B's header and with the hashes of B's transactions in B's order.
C19_RoundTrip ==
    /\ \A i \in StandingConfirms :
          /\ log[i].hash \in Confirmed
          /\ db_blocks_hash[log[i].hash] = log[i].depth
    /\ \A h \in Confirmed :
          LET d == db_blocks_hash[h]
              by_depth == fetch_proto_block_by_depth(db_blocks, d)
              by_hash == fetch_proto_block_by_hash(db_blocks, db_blocks_hash, h)
          IN /\ fetch_block_header_impl(by_depth) = HeaderOf(BlockOf(h))
             /\ fetch_block_header_impl(by_hash) = HeaderOf(BlockOf(h))
             /\ fetch_blk_tx_hashes_result(by_depth) = TxHashesOf(BlockOf(h))
             /\ fetch_blk_tx_hashes_result(by_hash) = TxHashesOf(BlockOf(h))

\* Block 5, of two transactions, was confirmed at depth 2 by a store that
\* reorganized the chain, and its transaction hashes were fetched in its order.
C19_Witness ==
    /\ results = <<TxHashesOf(BlockOf(5))>>
    /\ \E i \in StandingConfirms : log[i].hash = 5 /\ log[i].depth = 2
    /\ \E i \in 1..Len(log) : log[i].kind = "unconfirm"

\* C20: store(B) for a block B whose hash is already pending in the pool is a
\* no-op: duplicate with status orphan is its one report, the pool and every
\* table are as before, the organizer does not run (no event either) and the
\* flush counter is as before.
C20_DuplicateOrphanNoOp ==
    [][\A h \in BlockHashes :
          (/\ h \notin Confirmed
           /\ \E o \in orphans : o.hash = h
           /\ Stored(BlockOf(h))) =>
             /\ results' = <<[op |-> "store", ec |-> "duplicate", status |-> "orphan",
                              depth |-> 0]>>
             /\ UNCHANGED <<tables, orphans, published, flush_counter>>]_vars

\* C21: the pool never holds two entries of the same block hash and never more
\* entries than its capacity; add(block) returns false and changes nothing when
\* an entry of that hash is pending, otherwise it inserts the block and returns
\* true.
C21_PoolUniqueAndBounded ==
    [][/\ \A o1, o2 \in orphans' : o1.hash = o2.hash => o1 = o2
       /\ Cardinality(orphans') <= OrphanCapacity
       /\ \A b \in PoolBlocks :
             pool_add(b) =>
                IF \E o \in orphans : o.hash = b.hash
                THEN results' = <<[op |-> "add", ok |-> FALSE]>> /\ orphans' = orphans
                ELSE results' = <<[op |-> "add", ok |-> TRUE]>> /\ b \in orphans']_vars

\* The pool is at its capacity after blocks of more hashes than that came in:
\* the add made last inserted its block, and hash 1 is held once, by the second
\* of its two block objects.
C21_Witness ==
    /\ Cardinality(orphans) = OrphanCapacity
    /\ results = <<[op |-> "add", ok |-> TRUE]>>
    /\ \E o \in orphans : o.hash = MaxPoolBlocks - 1
    /\ \E o \in orphans : o.hash = 1 /\ o.txs = <<101, 102>>

\* C22: an operation queued after a successful start runs to completion and
\* delivers its result, also when stop() is called while it waits or runs: no
\* queued handler ends, and the process does not end under it, without its
\* result handed to its handler.
C22_QueuedRunsToCompletion ==
    [][\A t \in running \ running' :
          submitted[t].op # "do_start" =>
             /\ lifecycle' # "crashed"
             /\ context' = "strand"
             /\ results' # <<>>
             /\ \A i \in 1..Len(results') : results'[i].ec # "undefined"]_vars

\* C23: in every state, after imports at any depth and after reorganizations,
\* every transaction that fetch_transaction_index reports as found has a parent
\* depth at which a block record exists and an index at which that block's
\* list of transaction hashes holds the hash of the transaction.
C23_TransactionIndexResolves ==
    \A t \in TxHashes :
       LET found == fetch_transaction_index_result(db_txs, t)
       IN found.ec = "success" =>
             /\ found.depth \in DOMAIN db_blocks
             /\ found.index + 1 \in 1..Len(db_blocks[found.depth].txs)
             /\ db_blocks[found.depth].txs[found.index + 1] = t

\* C24: start calls its handler exactly once, with no error exactly when the
\* lock was taken and all five tables were opened; when the lock or a table
\* fails it reports the IO error, leaves no table handle open and no running
\* store, and is not tried again.
C24_StartReportsIOError ==
    [][/\ (lifecycle = "new" /\ lifecycle' # "new") =>
             /\ Len(results') = 1
             /\ results'[1].op = "start"
             /\ results'[1].ec = "success" <=> (flock' /\ opened' = Len(TableNames))
             /\ results'[1].ec # "success" =>
                   /\ results'[1].ec = "io_error"
                   /\ opened' = 0
                   /\ lifecycle' = "failed"
       /\ lifecycle = "failed" => UNCHANGED <<lifecycle, flock, opened>>]_vars

\* C25: every operation calls its handler exactly once on every path; one store
\* hands over exactly one result, whether the block ends as duplicate of a
\* confirmed block, duplicate of a pending block, pending or confirmed.
C25_ExactlyOneResult ==
    [][/\ results' # results => Len(results') = 1
       /\ \A h \in BlockHashes : Stored(BlockOf(h)) => Len(results') = 1]_vars

IsPrefix(s, t) == Len(s) <= Len(t) /\ SubSeq(t, 1, Len(s)) = s

\* What a fetch_outputs that reads the value of address a is handed.
OutputsOf(address, a) == fetch_outputs_bytes(address, a, TRUE).outputs

C28_ImportedDepthReadBack ==
    [][\A h \in BlockHashes, d \in ImportDepths :
          (do_import(BlockOf(h), d) /\ results' = <<[op |-> "import", ec |-> "success"]>>) =>
             /\ fetch_block_depth_result(db_blocks_hash', h) =
                   [op |-> "fetch_block_depth", ec |-> "success", depth |-> d]
             /\ fetch_last_depth_result(db_blocks') =
                   [op |-> "fetch_last_depth", ec |-> "success",
                    depth |-> UnsignedMax(DOMAIN db_blocks')]
             /\ find_index(db_blocks_hash', h) # NoIndex]_vars

ReadOps ==
    {"fetch_block_header", "fetch_block_transaction_hashes", "fetch_block_depth",
     "fetch_last_depth", "fetch_transaction", "fetch_transaction_index", "fetch_spend",
     "fetch_outputs"}

\* C29: fetch_last_depth reports not_found with depth 0 exactly when no block is
\* recorded and otherwise success with the greatest depth that holds a block
\* record; fetch_block_header, fetch_block_transaction_hashes, fetch_transaction
\* and fetch_transaction_index report not_found exactly when the key has no
\* record; and a step of a read leaves every table, the orphan pool and the
\* subscriber set as they were.
C29_ReadsReportAndChangeNothing ==
    [][/\ fetch_last_depth_result(db_blocks) =
             IF DOMAIN db_blocks = {}
             THEN [op |-> "fetch_last_depth", ec |-> "not_found", depth |-> 0]
             ELSE [op |-> "fetch_last_depth", ec |-> "success",
                   depth |-> UnsignedMax(DOMAIN db_blocks)]
       /\ \A d \in ImportDepths \cup DOMAIN db_blocks :
             LET proto_block == fetch_proto_block_by_depth(db_blocks, d)
             IN /\ fetch_block_header_impl(proto_block).ec = "not_found"
                      <=> d \notin DOMAIN db_blocks
                /\ fetch_blk_tx_hashes_result(proto_block).ec = "not_found"
                      <=> d \notin DOMAIN db_blocks
       /\ \A h \in BlockHashes :
             LET proto_block == fetch_proto_block_by_hash(db_blocks, db_blocks_hash, h)
             IN /\ fetch_block_header_impl(proto_block).ec = "not_found"
                      <=> h \notin DOMAIN db_blocks_hash
                /\ fetch_blk_tx_hashes_result(proto_block).ec = "not_found"
                      <=> h \notin DOMAIN db_blocks_hash
       /\ \A t \in TxHashes :
             /\ fetch_transaction_result(db_txs, t).ec = "not_found"
                   <=> t \notin DOMAIN db_txs
             /\ fetch_transaction_index_result(db_txs, t).ec = "not_found"
                   <=> t \notin DOMAIN db_txs
       /\ (results' # results /\ results' # <<>> /\ results'[1].op \in ReadOps) =>
             UNCHANGED <<tables, orphans, subscribers>>]_vars

\* The four bytes, most significant first, of lot * 4096 + sequence.
LotSequenceBytes(lot, sequence) ==
    <<lot \div 4096, (lot \div 16) % 256, (lot % 16) * 16 + sequence \div 256,
      sequence % 256>>

\* C30: create_token returns false when lot > max_token_lot or sequence >
\* max_token_sequence; a token it builds carries lot * 4096 + sequence, the lot
\* above the low 12 bits and the sequence in them, and no other lot and
\* sequence in range give the same entropy.
C30_LotAndSequenceCombined ==
    \A i \in 1..Len(results) :
       results[i].op = "create_token" =>
          LET r == results[i]
          IN /\ (r.lot > max_token_lot \/ r.sequence > max_token_sequence) => ~r.ok
             /\ r.ok =>
                   /\ r.entropy = TokenSalt \o LotSequenceBytes(r.lot, r.sequence)
                   /\ \A lot \in TokenLots, sequence \in TokenSequences :
                         (/\ lot <= max_token_lot
                          /\ sequence <= max_token_sequence
                          /\ <<lot, sequence>> # <<r.lot, r.sequence>>)
                         => token_entropy(TokenSalt, lot, sequence) # r.entropy

\* A key was made by encrypt or create_key_pair; decrypt got past its checksum.
KeyMade == results # <<>> /\ results[1].op \in {"encrypt", "create_key_pair"} /\ results[1].ok
KeyDecrypted == Len(results) = 2 /\ results[2].op = "decrypt" /\ results[2].path # "none"

\* C31: convert_version maps every byte back to itself when applied twice,
\* exchanges 0 and 1 and leaves every other byte; read_version of a key whose
\* prefix versioned_prefix built for address version a is a; and a decrypt
\* that gets past the checksum reads the address version the key was made for.
C31_VersionRoundTrip ==
    /\ \A v \in 0..255 :
          /\ convert_version(convert_version(v)) = v
          /\ convert_version(v) = (IF v = 0 THEN 1 ELSE IF v = 1 THEN 0 ELSE v)
          /\ \A prefix \in {prefix_private_key, prefix_private_key_multiplied} :
                /\ read_version(versioned_prefix(v, prefix) \o <<0>> \o KeyBody) = v
                /\ Tail(versioned_prefix(v, prefix)) = Tail(prefix)
    /\ KeyMade => read_version(results[1].key) = results[1].address_version
    /\ KeyDecrypted =>
          /\ results[2].key = results[1].key
          /\ results[2].address_version = results[1].address_version

\* C31 witness: decrypt has read address version 0 from a key whose first
\* byte is 1, on the path of the keys that are not multiplied.
C31_Witness ==
    /\ Len(results) = 2
    /\ results[1].op = "encrypt"
    /\ results[1].address_version = 0
    /\ results[2].op = "decrypt"
    /\ results[2].path = "secret"
    /\ results[2].key[1] = 1
    /\ results[2].address_version = 0

\* C32: for every multiplied, compressed and lot_sequence the byte of
\* generate_flag_byte answers check_flag with compressed for ec_compressed,
\* with lot_sequence for lot_sequence and with not multiplied for
\* ec_non_multiplied, and has no bit set beside these; a decrypt that gets past
\* the checksum takes the multiplied path exactly for a key made as multiplied.
C32_FlagByteRoundTrip ==
    /\ \A multiplied \in BOOLEAN, compressed \in BOOLEAN, lot_seq \in BOOLEAN :
          LET b == generate_flag_byte(multiplied, compressed, lot_seq)
              key == prefix_private_key \o <<b>> \o KeyBody
          IN /\ b \in 0..255
             /\ check_flag(key, at_private_key_flags, flag_byte_ec_compressed) = compressed
             /\ check_flag(key, at_private_key_flags, flag_byte_lot_sequence) = lot_seq
             /\ check_flag(key, at_private_key_flags, flag_byte_ec_non_multiplied)
                   = ~multiplied
             /\ bit_and(b, 255 - (4 + 32 + 64 + 128), 0) = 0
    /\ KeyMade =>
          LET key == results[1].key
          IN /\ check_flag(key, at_private_key_flags, flag_byte_ec_compressed)
                   = results[1].compressed
             /\ check_flag(key, at_private_key_flags, flag_byte_lot_sequence)
                   = results[1].lot
             /\ check_flag(key, at_private_key_flags, flag_byte_ec_non_multiplied)
                   = ~results[1].multiplied
    /\ KeyDecrypted =>
          (results[2].path = "multiplied_secret" <=> results[1].multiplied)

\* C32 witness: decrypt took the multiplied path for a key that create_key_pair
\* made from a lot token, compressed: its flag byte has the bits of
\* lot_sequence and ec_compressed and no other.
C32_Witness ==
    /\ Len(results) = 2
    /\ results[1].op = "create_key_pair"
    /\ results[1].lot /\ results[1].compressed
    /\ results[2].op = "decrypt"
    /\ results[2].path = "multiplied_secret"
    /\ results[2].key[3] = 36
====
